---- MODULE Spec2Model ----
(***************************************************************************)
(* Startup pitch-deck evaluator: backend catalog, prompt-version registry, *)
(* StartupEvaluator construction and the two-stage evaluate() pipeline     *)
(* with its retry wrapper and usage accounting.                            *)
(*                                                                         *)
(* Eight specifications share the definitions below:                       *)
(*   SpecCtor  - the module-level entry points: get_model_config,          *)
(*               get_prompts and StartupEvaluator(...) under every         *)
(*               credential environment;                                   *)
(*   Spec      - the methods of one StartupEvaluator instance, evaluate()  *)
(*               called again and again, one backend request per step;     *)
(*   SpecFacts - the pure helpers over an extracted-facts record;          *)
(*   SpecPages - _pdf_to_images over page counts and page caps;            *)
(*   SpecLive  - Spec on one instance, with the fairness of a running      *)
(*               evaluate();                                               *)
(*   SpecScorecard - the astella scoring table and score bands;            *)
(*   SpecBatch - the batch drivers process_batch and run_comparison;       *)
(*   SpecShared - two evaluate() invocations running concurrently.         *)
(***************************************************************************)
EXTENDS Integers, Sequences, FiniteSets, TLC

VARIABLES
    env,                  \* os.environ restricted to the credential variables
    call,                 \* the latest module-level call: function, arguments, outcome
    evaluator,            \* the StartupEvaluator instance the methods run on
    total_input_tokens,   \* self._total_input_tokens
    total_output_tokens,  \* self._total_output_tokens
    total_requests,       \* self._total_requests
    pc,                   \* position of the current evaluate() invocation
    doc,                  \* the document evaluate() was called with
    content,              \* the payload extract_info built for the extraction agent
    attempt,              \* attempt number of the running _run_agent_sync call
    fallbacks,            \* plain-form calls made by the running _run_agent_sync call
    last_error_form,      \* call form ("settings"/"plain") whose exception failed the latest attempt
    sent,                 \* the (agent, payload) pairs handed to run_sync, this invocation
    max_pages_arg,        \* the page cap _pdf_to_images was called with
    images,               \* the list _pdf_to_images returned
    rasterizer_calls,     \* calls of _pdf_to_images, this invocation
    extraction_requests,  \* run_sync calls received by the extraction agent, this invocation
    evaluation_requests,  \* run_sync calls received by the evaluation agent, this invocation
    waits,                \* the sleeps of the running _run_agent_sync call, in order
    last_error,           \* the exception raised by the latest failed attempt
    response,             \* the backend's answer to the latest successful request
    ext_result,           \* what _run_agent_sync returned to extract_info
    eval_result,          \* what _run_agent_sync returned to evaluate_startup
    pdf_info,             \* evaluate()'s local pdf_info
    warnings,             \* logger.warning records of this invocation
    raised,               \* the exception that left evaluate(), if any
    returned,             \* the dict evaluate() returned, if any
    info,                 \* SpecFacts: the PitchDeckInfo under test
    is_valid,             \* SpecFacts: _validate_extraction(info) as "True"/"False", None before the call
    summary,              \* SpecFacts: lines of _format_pdf_info(info)
    scorecard,            \* SpecScorecard: the astella scoring procedure, step and running total
    batch,                \* SpecBatch: the running batch driver, its folder, position and output
    isolation,            \* SpecShared: "shared" (one instance) or "per_call" (one instance each)
    counters,             \* SpecShared: the usage attributes of each instance
    threads               \* SpecShared: the evaluate() invocations in flight

ctorVars == <<env, call>>
usageVars == <<total_input_tokens, total_output_tokens, total_requests>>
pageVars == <<max_pages_arg, images, rasterizer_calls>>
runVars == <<evaluator, pc, doc, content, attempt, fallbacks, last_error_form, sent,
             pageVars, extraction_requests, evaluation_requests, waits, last_error,
             response, ext_result, eval_result, pdf_info, warnings, raised, returned>>
factVars == <<info, is_valid, summary>>
sideVars == <<scorecard, batch, isolation, counters, threads>>
vars == <<ctorVars, usageVars, runVars, factVars, sideVars>>

-----------------------------------------------------------------------------
(* Python values *)

\* None
NoneVal == "<None>"

\* None where an int is expected
NoneInt == -1

\* bool(s) of an Optional[str]
Truthy(s) == s # NoneVal /\ s # ""

\* str.lower() on the strings the model uses
Lower(s) ==
    CASE s = "V1" -> "v1"
      [] s = "V2" -> "v2"
      [] s = "V3" -> "v3"
      [] s = "ASTELLA" -> "astella"
      [] s = "Astella" -> "astella"
      [] s = "Indefinido" -> "indefinido"
      [] s = "INDEFINIDO" -> "indefinido"
      [] s = "Desconhecido" -> "desconhecido"
      [] s = "NULL" -> "null"
      [] s = "None" -> "none"
      [] s = "Estagio.INDEFINIDO" -> "estagio.indefinido"
      [] s = "Estagio.SEED" -> "estagio.seed"
      [] s = "Estagio.PRE_SEED" -> "estagio.pre_seed"
      [] s = "Estagio.SERIES_A" -> "estagio.series_a"
      [] OTHER -> s

\* an exception object: its class, its message, the name the message carries
Exc(type, value, arg) == [type |-> type, value |-> value, arg |-> arg]
NoExc == Exc("None", "", "")

-----------------------------------------------------------------------------
(* model_config.py *)

ModelConfig(name, provider, model_string, env_var, pin, pout, supports_pdf) ==
    [name |-> name, provider |-> provider, model_string |-> model_string,
     env_var |-> env_var,
     pricing |-> [input_per_million |-> pin, output_per_million |-> pout],
     supports_pdf |-> supports_pdf]

\* the attributes a ModelConfig object has (description included)
ModelConfigFields ==
    {"name", "provider", "model_string", "env_var", "pricing", "supports_pdf",
     "description"}

\* prices in thousandths of a dollar per million tokens
AVAILABLE_MODELS ==
    [k \in {"gemini-flash", "gemini-pro", "gemini-3", "gpt-5-mini", "gpt-5-nano"} |->
        CASE k = "gemini-flash" ->
               ModelConfig("Gemini 2.5 Flash", "gemini", "google-gla:gemini-2.5-flash",
                           "GEMINI_API_KEY", 75, 300, TRUE)
          [] k = "gemini-pro" ->
               ModelConfig("Gemini 2.5 Pro", "gemini", "google-gla:gemini-2.5-pro",
                           "GEMINI_API_KEY", 1250, 5000, TRUE)
          [] k = "gemini-3" ->
               ModelConfig("Gemini 3 Pro", "gemini", "google-gla:gemini-3-pro",
                           "GEMINI_API_KEY", 2000, 12000, TRUE)
          [] k = "gpt-5-mini" ->
               ModelConfig("GPT-5 Mini", "openai", "openai:gpt-5-mini",
                           "OPENAI_API_KEY", 250, 2000, FALSE)
          [] k = "gpt-5-nano" ->
               ModelConfig("GPT-5 Nano", "openai", "openai:gpt-5-nano",
                           "OPENAI_API_KEY", 50, 400, FALSE)]

DEFAULT_MODEL == "gemini-flash"

NoConfig == ModelConfig(NoneVal, NoneVal, NoneVal, NoneVal, 0, 0, FALSE)

\* a call's outcome: the value returned, or the exception raised
Return(v) == [raised |-> NoExc, value |-> v]
Raise(e, dflt) == [raised |-> e, value |-> dflt]

get_model_config_nocheck(model_name) ==
    IF model_name \in DOMAIN AVAILABLE_MODELS
    THEN Return(AVAILABLE_MODELS[model_name])
    ELSE Return(AVAILABLE_MODELS[DEFAULT_MODEL])

get_model_config(model_name) ==
    IF model_name \notin DOMAIN AVAILABLE_MODELS
    THEN Raise(Exc("ValueError", "modelo nao encontrado", model_name), NoConfig)
    ELSE Return(AVAILABLE_MODELS[model_name])

-----------------------------------------------------------------------------
(* prompts.py *)

PROMPT_VERSIONS ==
    [k \in {"v1", "v2", "v3", "astella"} |->
        CASE k = "v1" -> "PromptV1"
          [] k = "v2" -> "PromptV2"
          [] k = "v3" -> "PromptAstella"
          [] k = "astella" -> "PromptAstella"]

DEFAULT_PROMPT_VERSION == "v2"

get_prompts_first(version) ==
    LET v == IF ~Truthy(version) THEN DEFAULT_PROMPT_VERSION ELSE version
    IN  IF Lower(v) \in DOMAIN PROMPT_VERSIONS
        THEN PROMPT_VERSIONS[Lower(v)]
        ELSE PROMPT_VERSIONS["v1"]

get_prompts(version) ==
    LET v == IF ~Truthy(version) THEN DEFAULT_PROMPT_VERSION ELSE version
    IN  IF Lower(v) \in DOMAIN PROMPT_VERSIONS
        THEN PROMPT_VERSIONS[Lower(v)]
        ELSE PROMPT_VERSIONS[DEFAULT_PROMPT_VERSION]

-----------------------------------------------------------------------------
(* evaluator.py: StartupEvaluator.__init__ *)

EnvVars == {"GEMINI_API_KEY", "OPENAI_API_KEY"}

\* os.getenv(name): None when unset, else the string
getenv(environ, name) == environ[name]

\* getattr(config, field) on a ModelConfig dataclass instance
GetAttr(config, field) ==
    IF field \in ModelConfigFields
    THEN NoExc
    ELSE Exc("AttributeError", "ModelConfig has no attribute", field)

\* lines 72-78: the first configuration whose credential is missing raises
CheckApiKeysFirstOnly(configs, environ) ==
    IF ~Truthy(getenv(environ, configs[1].env_var))
    THEN Exc("ValueError", "nao encontrada", configs[1].env_var)
    ELSE NoExc

CheckApiKeys(configs, environ) ==
    IF \E i \in 1..Len(configs) : ~Truthy(getenv(environ, configs[i].env_var))
    THEN LET i == CHOOSE j \in 1..Len(configs) :
                      /\ ~Truthy(getenv(environ, configs[j].env_var))
                      /\ \A k \in 1..(j - 1) : Truthy(getenv(environ, configs[k].env_var))
         IN  Exc("ValueError", "nao encontrada", configs[i].env_var)
    ELSE NoExc

\* lines 81-94: the generation settings read temperature, top_p and seed off the
\* configuration, in that order; the first absent attribute raises
BuildSettings(config) ==
    LET wanted == <<"temperature", "top_p", "seed">>
        missing == {i \in 1..Len(wanted) : GetAttr(config, wanted[i]) # NoExc}
    IN  IF missing = {}
        THEN Return("model_settings")
        ELSE Raise(GetAttr(config, wanted[CHOOSE i \in missing :
                                              \A j \in missing : i <= j]), NoneVal)

\* the attributes __init__ assigns to self (lines 62-69, 81-108); the usage
\* counters of lines 118-120 are the variables total_*
Instance(extraction_model, evaluation_model, prompt_version, exs, evs) ==
    [extraction_config |-> get_model_config(extraction_model).value,
     evaluation_config |-> get_model_config(evaluation_model).value,
     extraction_model_name |-> extraction_model,
     evaluation_model_name |-> evaluation_model,
     prompt_version |-> prompt_version,
     prompts |-> get_prompts(prompt_version),
     extraction_settings |-> exs,
     evaluation_settings |-> evs,
     extraction_agent |-> [model |-> get_model_config(extraction_model).value.model_string,
                           output_type |-> "PitchDeckInfo"],
     evaluation_agent |-> [model |-> get_model_config(evaluation_model).value.model_string,
                           output_type |-> "AvaliacaoStartup"]]

NoInstance == [extraction_model_name |-> NoneVal]

StartupEvaluatorInit(extraction_model, evaluation_model, prompt_version, environ) ==
    LET c1 == get_model_config(extraction_model)
        c2 == get_model_config(evaluation_model)
    IN  IF c1.raised # NoExc THEN Raise(c1.raised, NoInstance)
        ELSE IF c2.raised # NoExc THEN Raise(c2.raised, NoInstance)
        ELSE LET keys == CheckApiKeys(<<c1.value, c2.value>>, environ)
                 exs == BuildSettings(c1.value)
                 evs == BuildSettings(c2.value)
             IN  IF keys # NoExc THEN Raise(keys, NoInstance)
                 ELSE IF exs.raised # NoExc THEN Raise(exs.raised, NoInstance)
                 ELSE IF evs.raised # NoExc THEN Raise(evs.raised, NoInstance)
                 ELSE Return(Instance(extraction_model, evaluation_model,
                                      prompt_version, exs.value, evs.value))

-----------------------------------------------------------------------------
(* SpecCtor: the module-level entry points *)

\* values of a credential variable: unset, set to the empty string, set
EnvValues == {NoneVal, "", "key"}

\* backend names a caller may pass: the catalog and a name outside it
ModelNames == DOMAIN AVAILABLE_MODELS \cup {"gpt-4o"}

\* prompt-version names a caller may pass
VersionNames == {"v1", "v2", "v3", "astella", "V1", "ASTELLA", "v4", "", NoneVal}

\* no prompt rendered
NoPrompt == [intro |-> NoneVal, criteria |-> <<>>, location |-> NoneVal,
             scale |-> NoneVal, instructions |-> NoneVal]

NoCall == [fn |-> "none", a1 |-> NoneVal, a2 |-> NoneVal, a3 |-> NoneVal,
           raised |-> NoExc, config |-> NoConfig, prompts |-> NoneVal,
           instance |-> NoInstance, rendered |-> NoPrompt]

CallGetModelConfig(model_name) ==
    /\ call' = [NoCall EXCEPT !.fn = "get_model_config", !.a1 = model_name,
                              !.raised = get_model_config(model_name).raised,
                              !.config = get_model_config(model_name).value]
    /\ UNCHANGED <<sideVars, env, usageVars, runVars, factVars>>

CallGetPrompts(version) ==
    /\ call' = [NoCall EXCEPT !.fn = "get_prompts", !.a1 = version,
                              !.prompts = get_prompts(version)]
    /\ UNCHANGED <<sideVars, env, usageVars, runVars, factVars>>

Construct(extraction_model, evaluation_model, prompt_version) ==
    LET r == StartupEvaluatorInit(extraction_model, evaluation_model,
                                  prompt_version, env)
    IN  /\ call' = [NoCall EXCEPT !.fn = "StartupEvaluator",
                                  !.a1 = extraction_model, !.a2 = evaluation_model,
                                  !.a3 = prompt_version,
                                  !.raised = r.raised, !.instance = r.value]
        /\ UNCHANGED <<sideVars, env, usageVars, runVars, factVars>>

-----------------------------------------------------------------------------
(* models.py, config.py *)

\* Estagio(str, Enum): a member is written as its value
Estagio == {"pre_seed", "seed", "series_a", "indefinido"}

\* str(member) of an Enum with a str mixin is "Estagio.NAME", not the value
EstagioStr(e) ==
    CASE e = "pre_seed" -> "Estagio.PRE_SEED"
      [] e = "seed" -> "Estagio.SEED"
      [] e = "series_a" -> "Estagio.SERIES_A"
      [] e = "indefinido" -> "Estagio.INDEFINIDO"

\* PitchDeckInfo fields in declaration order, which is model_dump() order
PitchDeckFields ==
    <<"nome_startup", "localizacao", "estagio", "receita_anual", "tamanho_rodada",
      "valuation_pre_money", "crescimento_anual", "produto_descricao",
      "tracao_metricas", "equipe_fundadores", "clientes_atuais", "modelo_negocio",
      "mercado_tamanho", "diferencial_competitivo", "cap_table",
      "outras_informacoes">>

FieldNames == {PitchDeckFields[i] : i \in 1..Len(PitchDeckFields)}

\* index of the first Optional[str] field (receita_anual)
FirstOptional == 4

\* str(value) of the value model_dump() holds for a field
StrOf(field, value) == IF field = "estagio" THEN EstagioStr(value) ELSE value

NotaDescricoesNoTop == [n \in 0..4 |-> "descricao"]
NOTA_DESCRICOES ==
    [n \in 0..5 |->
        CASE n = 0 -> "Descartavel - nao atende criterios basicos"
          [] n = 1 -> "Muito fraca - poucos pontos positivos"
          [] n = 2 -> "Fraca - alguns pontos, mas gaps significativos"
          [] n = 3 -> "Mediana - potencial, mas precisa de mais validacao"
          [] n = 4 -> "Forte - atende maioria dos criterios, vale conversar"
          [] n = 5 -> "Excepcional - prioridade maxima, agendar reuniao"]

-----------------------------------------------------------------------------
(* evaluator.py: the pure helpers *)

Sentinels == {"indefinido", "desconhecido", "null", "none"}

\* line 189
has_name(i) ==
    Truthy(i["nome_startup"]) /\ Lower(i["nome_startup"]) \notin Sentinels

\* lines 191-194: every field of model_dump() is counted, the name included
filled_fields(i) ==
    Cardinality({f \in FieldNames :
                    Truthy(i[f]) /\ Lower(StrOf(f, i[f])) \notin Sentinels})

\* lines 187-200
validate_extraction(i) == has_name(i) /\ filled_fields(i) >= 3

\* line 263: the value is kept when truthy and different from "indefinido"
\* (an Estagio member compares equal to its value)
RenderedTruthy(i, f) == Truthy(i[f])
Rendered(i, f) == Truthy(i[f]) /\ i[f] # "indefinido"

RECURSIVE FormatFrom(_, _)
FormatFrom(i, k) ==
    IF k > Len(PitchDeckFields) THEN <<>>
    ELSE LET f == PitchDeckFields[k]
         IN  (IF Rendered(i, f) THEN <<[field |-> f, value |-> i[f]]>> ELSE <<>>)
             \o FormatFrom(i, k + 1)

NoInformationLine == [field |-> NoneVal, value |-> "Nenhuma informacao extraida"]

\* lines 259-266: the lines of the summary, in order
format_pdf_info_reversed(i) ==
    IF FormatFrom(i, 1) # <<>>
    THEN [k \in 1..Len(FormatFrom(i, 1)) |->
             FormatFrom(i, 1)[Len(FormatFrom(i, 1)) + 1 - k]]
    ELSE <<NoInformationLine>>
format_pdf_info(i) ==
    IF FormatFrom(i, 1) # <<>> THEN FormatFrom(i, 1) ELSE <<NoInformationLine>>

-----------------------------------------------------------------------------
(* config.py: the rubric registry; prompts.py: its renderers *)

LOCATION == "Brasil"

\* the keys of FUND_CRITERIA in the order the dict literal declares them, which
\* is the order .items() iterates in
StageKeys == <<"pre_seed", "seed", "series_a">>

Range(lo, hi) == [min |-> lo, max |-> hi]

\* FUND_CRITERIA with the three nested dicts of a stage flattened into one
\* record; texts are written without accents and "-" stands for the en dash
FUND_CRITERIA ==
    [k \in {"pre_seed", "seed", "series_a"} |->
        CASE k = "pre_seed" ->
               [nome |-> "Pre-Seed",
                foco |-> "Validacao de hipoteses e descoberta",
                receita_anual |-> Range(0, 1000000),
                tamanho_rodada |-> Range(2500000, 5000000),
                valuation_pre_money |-> Range(15000000, 35000000),
                crescimento |-> "Visibilidade para atingir tracao de Seed em 18-24 meses",
                composicao_ideal |-> "90%+ das acoes com Fundadores + ESOP",
                diluicao_rodada |-> Range(10, 15),
                produto |-> "Visibilidade para atingir sinais de PMF nos proximos 18-24 meses"]
          [] k = "seed" ->
               [nome |-> "Seed",
                foco |-> "Primeiros sinais de PMF e construcao da maquina de vendas",
                receita_anual |-> Range(3500000, 10000000),
                tamanho_rodada |-> Range(8000000, 20000000),
                valuation_pre_money |-> Range(32000000, 60000000),
                crescimento |-> "3x ao ano (aprox. +10% a.m.)",
                composicao_ideal |-> "80%+ das acoes com Fundadores + ESOP",
                diluicao_rodada |-> Range(15, 20),
                produto |-> "Gera valor real com sinais claros de PMF"]
          [] k = "series_a" ->
               [nome |-> "Series A",
                foco |-> "Escalabilidade e eficiencia",
                receita_anual |-> Range(18000000, 30000000),
                tamanho_rodada |-> Range(25000000, 50000000),
                valuation_pre_money |-> Range(75000000, 200000000),
                crescimento |-> "2,5x ao ano (aprox. +8% a.m.)",
                composicao_ideal |-> "65%+ das acoes com Fundadores + ESOP",
                diluicao_rodada |-> Range(20, 25),
                produto |-> "Maquina de vendas pronta para escalar"]]

\* format(n, ",.0f") of a non-negative int: groups of three digits from the right
ZeroFill3(k) ==
    IF k < 10 THEN "00" \o ToString(k)
    ELSE IF k < 100 THEN "0" \o ToString(k) ELSE ToString(k)
RECURSIVE thousands(_)
thousands(n) ==
    IF n < 1000 THEN ToString(n)
    ELSE thousands(n \div 1000) \o "," \o ZeroFill3(n % 1000)

Reais(r) == "R$ " \o thousands(r.min) \o " - R$ " \o thousands(r.max)
Percent(r) == ToString(r.min) \o "% - " \o ToString(r.max) \o "%"

\* one appended line, with the registry entry it was interpolated from
Line(stage, item, text) == [stage |-> stage, item |-> item, text |-> text]

\* format_fund_criteria lines 19-35: the lines of one stage
FundStageLines(k) ==
    LET d == FUND_CRITERIA[k]
    IN  <<Line(k, "nome", "=== " \o d.nome \o " ==="),
          Line(k, "foco", "Foco: " \o d.foco),
          Line(k, "", "Metricas & Financeiro:"),
          Line(k, "receita_anual", "  - Receita Anual: " \o Reais(d.receita_anual)),
          Line(k, "tamanho_rodada", "  - Tamanho da Rodada: " \o Reais(d.tamanho_rodada)),
          Line(k, "valuation_pre_money",
               "  - Valuation (Pre-Money): " \o Reais(d.valuation_pre_money)),
          Line(k, "crescimento", "  - Crescimento: " \o d.crescimento),
          Line(k, "", "Estrutura & Cap Table:"),
          Line(k, "composicao_ideal", "  - Composicao Ideal: " \o d.composicao_ideal),
          Line(k, "diluicao_rodada", "  - Diluicao na Rodada: " \o Percent(d.diluicao_rodada)),
          Line(k, "", "Produto & Processos:"),
          Line(k, "produto", "  - " \o d.produto)>>

RECURSIVE FundLinesFrom(_)
FundLinesFrom(i) ==
    IF i > Len(StageKeys) THEN <<>>
    ELSE FundStageLines(StageKeys[i]) \o FundLinesFrom(i + 1)

format_fund_criteria == FundLinesFrom(1)

\* format_napkin_astella lines 47-54: the lines of one stage
NapkinStageLines(k) ==
    LET d == FUND_CRITERIA[k]
    IN  <<Line(k, "nome", d.nome \o ":"),
          Line(k, "tamanho_rodada",
               "  - Tamanho da Rodada Esperado: " \o Reais(d.tamanho_rodada)),
          Line(k, "valuation_pre_money",
               "  - Valuation Pre-Money Esperado: " \o Reais(d.valuation_pre_money)),
          Line(k, "diluicao_rodada",
               "  - Diluicao Esperada na Rodada: " \o Percent(d.diluicao_rodada)),
          Line(k, "composicao_ideal",
               "  - Composicao Ideal do Cap Table: " \o d.composicao_ideal)>>

RECURSIVE NapkinLinesFrom(_)
NapkinLinesFrom(i) ==
    IF i > Len(StageKeys) THEN <<>>
    ELSE NapkinStageLines(StageKeys[i]) \o NapkinLinesFrom(i + 1)

format_napkin_astella ==
    <<Line(NoneVal, "", "=== REFERENCIA NAPKIN ASTELLA ==="),
      Line(NoneVal, "", "Use os criterios abaixo como referencia")>>
    \o NapkinLinesFrom(1)

\* get_evaluation_system_prompt of the three PromptSets: the parts the f-string
\* joins; the scale and the instruction block are class constants, named here
get_evaluation_system_prompt_napkin(prompts) ==
    [intro |-> "analista de Venture Capital na Astella",
     criteria |-> format_napkin_astella,
     location |-> NoneVal,
     scale |-> "PromptAstella.SCORING_CRITERIA",
     instructions |-> "PromptAstella.EVALUATION_INSTRUCTIONS"]
get_evaluation_system_prompt(prompts) ==
    IF prompts = "PromptAstella"
    THEN [intro |-> "analista de Venture Capital na Astella",
          criteria |-> format_napkin_astella,
          location |-> NoneVal,
          scale |-> "PromptAstella.SCORING_CRITERIA",
          instructions |-> "PromptAstella.EVALUATION_INSTRUCTIONS"]
    ELSE [intro |-> "analista de um fundo de Venture Capital brasileiro",
          criteria |-> format_fund_criteria,
          location |-> LOCATION,
          scale |-> prompts \o ".EVALUATION_SCALE",
          instructions |-> prompts \o ".EVALUATION_INSTRUCTIONS"]

\* Agent(..., system_prompt=self.prompts.get_evaluation_system_prompt()) on the
\* PromptSet get_prompts resolves the name to
CallGetEvaluationSystemPrompt(version) ==
    /\ call' = [NoCall EXCEPT !.fn = "get_evaluation_system_prompt", !.a1 = version,
                              !.prompts = get_prompts(version),
                              !.rendered = get_evaluation_system_prompt(get_prompts(version))]
    /\ UNCHANGED <<sideVars, env, usageVars, runVars, factVars>>

-----------------------------------------------------------------------------
(* the states before any call *)

\* the values the per-invocation variables hold while no evaluate() is running
NoDoc == [readable |-> FALSE, pages |-> 0]
NoContent == [prompt |-> NoneVal, kind |-> NoneVal, body |-> <<>>]
NoUsage == [input_tokens |-> 0, output_tokens |-> 0, requests |-> 0]
NoOutput == [none |-> TRUE]
NoResult == [output |-> NoOutput, usage |-> NoUsage]
NoRecord == [nota |-> -1]

RunIdle ==
    /\ pc = "Idle"
    /\ doc = NoDoc
    /\ content = NoContent
    /\ attempt = 0
    /\ fallbacks = 0
    /\ last_error_form = NoneVal
    /\ sent = {}
    /\ max_pages_arg = NoneInt
    /\ images = <<>>
    /\ rasterizer_calls = 0
    /\ extraction_requests = 0
    /\ evaluation_requests = 0
    /\ waits = <<>>
    /\ last_error = NoExc
    /\ response = NoResult
    /\ ext_result = NoResult
    /\ eval_result = NoResult
    /\ pdf_info = NoOutput
    /\ warnings = {}
    /\ raised = NoExc
    /\ returned = NoRecord

UsageZero ==
    /\ total_input_tokens = 0
    /\ total_output_tokens = 0
    /\ total_requests = 0

\* nothing scored, no batch started, no concurrent invocation
NoScorecard == [step |-> "Idle", next |-> 0, points |-> 0, total |-> 0, notas |-> {}]
NoBatch == [driver |-> NoneVal]
SideIdle ==
    /\ scorecard = NoScorecard
    /\ batch = NoBatch
    /\ isolation = NoneVal
    /\ counters = <<>>
    /\ threads = <<>>

FactsIdle ==
    /\ info = NoOutput
    /\ is_valid = NoneVal
    /\ summary = <<>>

InitCtor ==
    /\ env \in [EnvVars -> EnvValues]
    /\ call = NoCall
    /\ evaluator = NoInstance
    /\ UsageZero
    /\ SideIdle
    /\ RunIdle
    /\ FactsIdle

NextCtor ==
    \/ \E n \in ModelNames : CallGetModelConfig(n)
    \/ \E v \in VersionNames : CallGetPrompts(v)
    \/ \E v \in VersionNames : CallGetEvaluationSystemPrompt(v)
    \/ \E e \in ModelNames, m \in ModelNames, v \in VersionNames : Construct(e, m, v)

SpecCtor == InitCtor /\ [][NextCtor]_vars

-----------------------------------------------------------------------------
(* evaluator.py: retry wrapper, usage accounting, evaluate() *)

\* stop_after_attempt(3)
MaxAttemptsFour == 3 + 1
MaxAttemptsTwo == 3 - 1
MaxAttempts == 3

\* wait_exponential(multiplier=1, min=4, max=10)
WaitMultiplier == 1
WaitMin == 4
WaitMax == 10

\* reraise=True: the last attempt's exception leaves the wrapper as it is;
\* with reraise off tenacity raises RetryError around it
ReraiseWrapped(e) == Exc("RetryError", e.type, e.value)
Reraise(e) == e

Max(a, b) == IF a >= b THEN a ELSE b
Min(a, b) == IF a <= b THEN a ELSE b

RECURSIVE Pow2(_)
Pow2(n) == IF n <= 0 THEN 1 ELSE 2 * Pow2(n - 1)

\* the sleep after failed attempt number n: multiplier * 2^(n-1), clamped
wait_exponential_nomin(n) == Min(WaitMultiplier * Pow2(n - 1), WaitMax)
wait_exponential(n) == Max(Max(0, WaitMin), Min(WaitMultiplier * Pow2(n - 1), WaitMax))

\* lines 141-143: `x or 0`
OrZero(x) == IF x = NoneInt THEN 0 ELSE x

\* lines 138-143, per counter
track_keep(total, x) == total
track(total, x) == total + OrZero(x)

\* lines 155-159, per counter
reset_keep(total) == total
reset(total) == 0

\* lines 145-153, over the three counters
get_usage(i, o, r) ==
    [input_tokens |-> i,
     output_tokens |-> o,
     total_tokens |-> i + o,
     requests |-> r,
     model_name |-> <<evaluator.extraction_config.name, evaluator.evaluation_config.name>>]

\* lines 232-257: the warnings the consistency check logs; it returns None
validate_evaluation_consistency(a, prompt_version) ==
    LET c == a.criterios_atendidos
        atendidos_criticos ==
            Cardinality({k \in {"localizacao", "estagio_adequado", "metricas_financeiro"} :
                            c[k].atendido})
    IN  (IF ~c["localizacao"].atendido /\ a.nota > 0 /\ prompt_version = "v1"
         THEN {"inconsistencia V1"} ELSE {})
        \cup (IF a.nota >= 4 /\ atendidos_criticos < 2
              THEN {"inconsistencia nota alta"} ELSE {})

\* line 275: the AvaliacaoStartup object after the consistency check ran on
\* it; lines 232-257 assign to none of its fields and raise nothing
AfterConsistencyCheckClamp(a, prompt_version) ==
    IF validate_evaluation_consistency(a, prompt_version) # {}
    THEN [a EXCEPT !.nota = 0] ELSE a
AfterConsistencyCheck(a, prompt_version) == a

\* lines 279-290: the dict evaluate() returns
BuildResultPartial(a, facts, usage) ==
    [nota |-> a.nota,
     pdf_info_extracted |-> facts]

BuildResult(a, facts, usage) ==
    [analise_preliminar |-> a.analise_preliminar,
     nota |-> a.nota,
     estagio_identificado |-> a.estagio_identificado,
     justificativa |-> a.justificativa,
     pontos_positivos |-> a.pontos_positivos,
     pontos_negativos |-> a.pontos_negativos,
     criterios_atendidos |-> a.criterios_atendidos,
     nota_descricao |-> IF a.nota \in DOMAIN NOTA_DESCRICOES
                        THEN NOTA_DESCRICOES[a.nota] ELSE "Desconhecida",
     pdf_info_extracted |-> facts,
     extraction_model |-> evaluator.extraction_config.name,
     evaluation_model |-> evaluator.evaluation_config.name,
     prompt_version |-> evaluator.prompt_version,
     usage |-> [input_tokens |-> usage.input_tokens,
                output_tokens |-> usage.output_tokens,
                total_tokens |-> usage.total_tokens,
                requests |-> usage.requests]]

\* the keys of a complete result dict
ResultKeys ==
    {"analise_preliminar", "nota", "estagio_identificado", "justificativa",
     "pontos_positivos", "pontos_negativos", "criterios_atendidos",
     "nota_descricao", "pdf_info_extracted", "extraction_model",
     "evaluation_model", "prompt_version", "usage"}

\* line 164: Path(pdf_path).read_bytes()
read_bytes_empty(d) == Return(<<>>)
read_bytes(d) ==
    IF d.readable THEN Return(<<"pdf_bytes">>)
    ELSE Raise(Exc("FileNotFoundError", "No such file or directory", ""), <<>>)

\* lines 182-185: what extract_info hands back for a result whose output the
\* quality predicate judged `valid`
ExtractInfoReturnGated(result, valid) ==
    IF valid THEN Return(result.output)
    ELSE Raise(Exc("ValueError", "extracao de baixa qualidade", ""), NoOutput)
ExtractInfoReturn(result, valid) == Return(result.output)

\* _pdf_to_images default max_pages
MaxPagesDefault == 10

\* lines 204-207: the import of PyMuPDF
import_fitz(installed) ==
    IF installed THEN NoExc ELSE Exc("ImportError", "PyMuPDF e necessario", "")

\* lines 209-219: one image per page, the first min(len(doc), max_pages) pages
\* (image k is the rendering of page k; range() of a negative number is empty)
pdf_to_images_nocap(d, max_pages) == [k \in 1..d.pages |-> k]
pdf_to_images(d, max_pages) == [k \in 1..Min(d.pages, max_pages) |-> k]

\* lines 166-178: the payload sent to the extraction agent
ExtractionContentOfEvaluationFlag(config, d) ==
    IF evaluator.evaluation_config.supports_pdf
    THEN [prompt |-> "EXTRACTION_USER_PROMPT", kind |-> "application/pdf",
          body |-> <<"pdf_bytes">>]
    ELSE [prompt |-> "EXTRACTION_USER_PROMPT", kind |-> "image/png",
          body |-> pdf_to_images(d, MaxPagesDefault)]
ExtractionContentOf(config, d) ==
    IF config.supports_pdf
    THEN [prompt |-> "EXTRACTION_USER_PROMPT", kind |-> "application/pdf",
          body |-> <<"pdf_bytes">>]
    ELSE [prompt |-> "EXTRACTION_USER_PROMPT", kind |-> "image/png",
          body |-> pdf_to_images(d, MaxPagesDefault)]

\* lines 224-225: the payload sent to the evaluation agent
EvaluationContentOf(facts) ==
    [prompt |-> "EVALUATION_USER_PROMPT", kind |-> "text", body |-> format_pdf_info(facts)]

-----------------------------------------------------------------------------
(* Spec: the methods of one instance *)

\* largest token count a backend reports in one usage record
MaxTokens == 1

\* page count of the longest sample document (above the rasterizer's cap)
MaxPages == 15

\* the instances the methods run on
\* (extraction backend, evaluation backend): one pair per submission path, the
\* evaluation backend's supports_pdf being the opposite of the extraction one's
RunModels == {<<"gemini-flash", "gpt-5-nano">>, <<"gpt-5-mini", "gemini-pro">>}
RunVersions == {"v1", "V1", "v4"}

\* the documents evaluate() is called with: a missing path, a one-page and a long PDF
Documents ==
    {NoDoc} \cup {[readable |-> TRUE, pages |-> n] : n \in {1, MaxPages}}

\* RunUsage records a backend returns
UsageSamples ==
    {[input_tokens |-> NoneInt, output_tokens |-> NoneInt, requests |-> NoneInt]}
    \cup {[input_tokens |-> i, output_tokens |-> i + 1, requests |-> 1] : i \in 1..MaxTokens}

\* a PitchDeckInfo: name, location, stage, then the leading optional fields
MkInfo(nome, loc, est, opt) ==
    [f \in FieldNames |->
        CASE f = "nome_startup" -> nome
          [] f = "localizacao" -> loc
          [] f = "estagio" -> est
          [] OTHER ->
               LET k == CHOOSE j \in 1..Len(PitchDeckFields) : PitchDeckFields[j] = f
               IN  IF k - FirstOptional + 1 \in DOMAIN opt
                   THEN opt[k - FirstOptional + 1] ELSE NoneVal]

\* extraction outputs of the sample backend: a well-filled and an empty deck
FactsSamples ==
    {MkInfo("Acme", "Sao Paulo", "seed", <<"R$ 5M">>),
     MkInfo("indefinido", "", "indefinido", <<>>)}

Criterio(b) == [atendido |-> b, evidencia_encontrada |-> "evidencia"]

\* an AvaliacaoStartup
MkAvaliacao(nota, loc, fit, met) ==
    [analise_preliminar |-> "analise",
     nota |-> nota,
     estagio_identificado |-> "seed",
     justificativa |-> "justificativa",
     pontos_positivos |-> <<"positivo">>,
     pontos_negativos |-> <<"negativo">>,
     criterios_atendidos |->
        [k \in {"localizacao", "estagio_adequado", "metricas_financeiro",
                "produto_tracao", "equipe"} |->
            CASE k = "localizacao" -> Criterio(loc)
              [] k = "estagio_adequado" -> Criterio(fit)
              [] k = "metricas_financeiro" -> Criterio(met)
              [] OTHER -> Criterio(TRUE)]]

\* evaluation outputs of the sample backend: every score the schema admits
\* (nota: ge=0, le=5), with 0, 1, 2 or all 3 of the critical criteria met
AvaliacaoSamples ==
    {MkAvaliacao(n, l, f, FALSE) : n \in 0..5, l \in BOOLEAN, f \in BOOLEAN}
    \cup {MkAvaliacao(n, TRUE, TRUE, TRUE) : n \in 0..5}

\* exceptions a run_sync call raises
TypeErrorSettings == Exc("TypeError", "unexpected keyword argument", "model_settings")
BackendErrors ==
    {TypeErrorSettings,
     Exc("ModelHTTPError", "status 429", ""),
     Exc("UnexpectedModelBehavior", "invalid output", "")}

\* what one run_sync call does: return a result with its usage, or raise
RunSyncOutcomes(outputs) ==
    {[ok |-> TRUE, exc |-> NoExc, result |-> [output |-> o, usage |-> u]] :
        o \in outputs, u \in UsageSamples}
    \cup {[ok |-> FALSE, exc |-> e, result |-> NoResult] : e \in BackendErrors}

\* the plain-form call is made only after a TypeError of the settings-form call
NotCalled == [ok |-> FALSE, exc |-> NoExc, result |-> NoResult]
SecondOutcomes(first, outputs) ==
    IF ~first.ok /\ first.exc.type = "TypeError"
    THEN RunSyncOutcomes(outputs) ELSE {NotCalled}

\* lines 129-136, one execution of the wrapped body: the settings-form call
\* `first`; on TypeError the plain-form call `second`, whose exception leaves
\* the handler as it is; any other exception is logged and raised again
RunAgentOnceNoFallback(first, second) ==
    IF first.ok THEN [ok |-> TRUE, exc |-> NoExc, result |-> first.result, calls |-> 1]
    ELSE [ok |-> FALSE, exc |-> first.exc, result |-> NoResult, calls |-> 1]
RunAgentOnce(first, second) ==
    IF first.ok THEN [ok |-> TRUE, exc |-> NoExc, result |-> first.result, calls |-> 1]
    ELSE IF first.exc.type = "TypeError"
         THEN [ok |-> second.ok, exc |-> second.exc, result |-> second.result, calls |-> 2]
         ELSE [ok |-> FALSE, exc |-> first.exc, result |-> NoResult, calls |-> 1]

\* The instance the methods run on carries the attributes __init__ assigns
\* (lines 62-69, 97-108, 118-120). As ModelConfig declares no temperature,
\* top_p or seed, __init__ itself raises at line 82 (StartupEvaluatorInit, C1);
\* the methods are specified from the attribute values they read, with the two
\* settings dicts opaque, since run_sync only passes them on.
Init ==
    /\ env = [v \in EnvVars |-> "key"]
    /\ call = NoCall
    /\ \E m \in RunModels, v \in RunVersions :
          evaluator = Instance(m[1], m[2], v, "model_settings", "model_settings")
    /\ UsageZero
    /\ SideIdle
    /\ RunIdle
    /\ FactsIdle

\* evaluate(), line 270, and the entry into extract_info
Evaluate(d) ==
    /\ pc \in {"Idle", "Done", "Failed"}
    /\ total_input_tokens' = reset(total_input_tokens)
    /\ total_output_tokens' = reset(total_output_tokens)
    /\ total_requests' = reset(total_requests)
    /\ pc' = "Extracting"
    /\ doc' = d
    /\ content' = NoContent
    /\ attempt' = 0
    /\ fallbacks' = 0
    /\ last_error_form' = NoneVal
    /\ sent' = {}
    /\ max_pages_arg' = NoneInt
    /\ images' = <<>>
    /\ rasterizer_calls' = 0
    /\ extraction_requests' = 0
    /\ evaluation_requests' = 0
    /\ waits' = <<>>
    /\ last_error' = NoExc
    /\ response' = NoResult
    /\ ext_result' = NoResult
    /\ eval_result' = NoResult
    /\ pdf_info' = NoOutput
    /\ warnings' = {}
    /\ raised' = NoExc
    /\ returned' = NoRecord
    /\ UNCHANGED <<sideVars, ctorVars, evaluator, factVars>>

\* extract_info lines 164-178 up to the call of the wrapper
ReadDocument ==
    /\ pc = "Extracting" /\ attempt = 0
    /\ LET config == evaluator.extraction_config
       IN  IF read_bytes(doc).raised # NoExc
           THEN /\ raised' = read_bytes(doc).raised
                /\ pc' = "Failed"
                /\ UNCHANGED <<content, attempt, pageVars>>
           ELSE IF config.supports_pdf
           THEN /\ content' = ExtractionContentOf(config, doc)
                /\ attempt' = 1
                /\ UNCHANGED <<raised, pc, pageVars>>
           ELSE \E installed \in BOOLEAN :
                  /\ rasterizer_calls' = rasterizer_calls + 1
                  /\ max_pages_arg' = MaxPagesDefault
                  /\ IF import_fitz(installed) # NoExc
                     THEN /\ raised' = import_fitz(installed)
                          /\ pc' = "Failed"
                          /\ UNCHANGED <<content, attempt, images>>
                     ELSE /\ images' = pdf_to_images(doc, MaxPagesDefault)
                          /\ content' = ExtractionContentOf(config, doc)
                          /\ attempt' = 1
                          /\ UNCHANGED <<raised, pc>>
    /\ UNCHANGED <<sideVars, ctorVars, usageVars, evaluator, doc, fallbacks, last_error_form, sent,
                   extraction_requests,
                   evaluation_requests, waits, last_error, response, ext_result,
                   eval_result, pdf_info, warnings, returned, factVars>>

\* where evaluate() stands after an attempt: on with the stage's result, in the
\* retry loop, or out with the exception (nothing in evaluate() catches it)
AfterAttemptAbandon(ok, next) ==
    IF ok THEN next ELSE IF attempt < MaxAttempts THEN pc ELSE "Idle"
AfterAttemptSwallow(ok, next) ==
    IF ok THEN next ELSE IF attempt < MaxAttempts THEN pc ELSE next
AfterAttempt(ok, next) ==
    IF ok THEN next ELSE IF attempt < MaxAttempts THEN pc ELSE "Failed"

\* one attempt of _run_agent_sync and what the retry decorator does with it
RunAgentAttempt(o, first, second) ==
    /\ fallbacks' = fallbacks + (o.calls - 1)
    /\ response' = IF first.ok THEN first.result
                   ELSE IF o.calls = 2 /\ second.ok THEN second.result ELSE response
    /\ IF o.ok
       THEN /\ last_error' = NoExc
            /\ last_error_form' = NoneVal
            /\ UNCHANGED <<attempt, waits, raised>>
       ELSE /\ last_error' = o.exc
            /\ last_error_form' = (IF o.calls = 2 THEN "plain" ELSE "settings")
            /\ IF attempt < MaxAttempts
               THEN /\ attempt' = attempt + 1
                    /\ waits' = Append(waits, wait_exponential(attempt))
                    /\ UNCHANGED raised
               ELSE /\ raised' = Reraise(o.exc)
                    /\ UNCHANGED <<attempt, waits>>

\* extract_info line 171/178: the wrapper on the extraction agent
ExtractionAttempt ==
    /\ pc = "Extracting" /\ attempt >= 1
    /\ \E first \in RunSyncOutcomes(FactsSamples) :
       \E second \in SecondOutcomes(first, FactsSamples) :
          LET o == RunAgentOnce(first, second)
          IN  /\ RunAgentAttempt(o, first, second)
              /\ extraction_requests' = extraction_requests + o.calls
              /\ sent' = sent \cup {[agent |-> "extraction_agent", content |-> content]}
              /\ ext_result' = IF o.ok THEN o.result ELSE ext_result
              /\ pc' = AfterAttempt(o.ok, "ValidatingExtraction")
    /\ UNCHANGED <<sideVars, ctorVars, usageVars, evaluator, doc, content, pageVars,
                   evaluation_requests, eval_result, pdf_info, warnings, returned,
                   factVars>>

\* extract_info lines 180-185, evaluate line 273, evaluate_startup lines 223-225
ValidateExtraction ==
    /\ pc = "ValidatingExtraction"
    /\ total_input_tokens' = track(total_input_tokens, ext_result.usage.input_tokens)
    /\ total_output_tokens' = track(total_output_tokens, ext_result.usage.output_tokens)
    /\ total_requests' = track(total_requests, ext_result.usage.requests)
    /\ warnings' = warnings \cup
                   (IF ~validate_extraction(ext_result.output)
                    THEN {"validacao de extracao falhou", "extracao de baixa qualidade"}
                    ELSE {})
    /\ LET r == ExtractInfoReturn(ext_result, validate_extraction(ext_result.output))
       IN  IF r.raised # NoExc
           THEN /\ raised' = r.raised
                /\ pc' = "Failed"
                /\ UNCHANGED <<pdf_info, content, attempt, fallbacks, waits>>
           ELSE /\ pdf_info' = r.value
                /\ content' = EvaluationContentOf(r.value)
                /\ pc' = "Evaluating"
                /\ attempt' = 1
                /\ fallbacks' = 0
                /\ waits' = <<>>
                /\ UNCHANGED raised
    /\ UNCHANGED <<sideVars, ctorVars, evaluator, doc, last_error_form, sent, pageVars,
                   extraction_requests, evaluation_requests, last_error, response,
                   ext_result, eval_result, returned, factVars>>

\* evaluate_startup line 227: the wrapper on the evaluation agent
EvaluationAttempt ==
    /\ pc = "Evaluating"
    /\ \E first \in RunSyncOutcomes(AvaliacaoSamples) :
       \E second \in SecondOutcomes(first, AvaliacaoSamples) :
          LET o == RunAgentOnce(first, second)
          IN  /\ RunAgentAttempt(o, first, second)
              /\ evaluation_requests' = evaluation_requests + o.calls
              /\ sent' = sent \cup {[agent |-> "evaluation_agent", content |-> content]}
              /\ eval_result' = IF o.ok THEN o.result ELSE eval_result
              /\ pc' = AfterAttempt(o.ok, "ValidatingEvaluation")
    /\ UNCHANGED <<sideVars, ctorVars, usageVars, evaluator, doc, content, pageVars,
                   extraction_requests, ext_result, pdf_info, warnings, returned,
                   factVars>>

\* evaluate_startup lines 228-230, evaluate lines 275-292
Finish ==
    /\ pc = "ValidatingEvaluation"
    /\ LET i == track(total_input_tokens, eval_result.usage.input_tokens)
           o == track(total_output_tokens, eval_result.usage.output_tokens)
           r == track(total_requests, eval_result.usage.requests)
       IN  /\ total_input_tokens' = i
           /\ total_output_tokens' = o
           /\ total_requests' = r
           /\ returned' = BuildResult(AfterConsistencyCheck(eval_result.output,
                                                            evaluator.prompt_version),
                                      pdf_info, get_usage(i, o, r))
    /\ warnings' = warnings \cup
                   validate_evaluation_consistency(eval_result.output,
                                                   evaluator.prompt_version)
    /\ pc' = "Done"
    /\ UNCHANGED <<sideVars, ctorVars, evaluator, doc, content, attempt, fallbacks,
                   last_error_form, sent, pageVars,
                   extraction_requests, evaluation_requests, waits, last_error,
                   response, ext_result, eval_result, pdf_info, raised, factVars>>

Next ==
    \/ \E d \in Documents : Evaluate(d)
    \/ ReadDocument
    \/ ExtractionAttempt
    \/ ValidateExtraction
    \/ EvaluationAttempt
    \/ Finish

Spec == Init /\ [][Next]_vars

\* The same methods on one instance, with the scheduling that makes them
\* progress: evaluate() is straight-line code on one thread: once called it keeps taking
\* its next step, and a backend request always returns or raises (the sleeps
\* between attempts are bounded by WaitMax). Nothing obliges the caller to call
\* evaluate() again.
InitLive ==
    /\ env = [v \in EnvVars |-> "key"]
    /\ call = NoCall
    /\ evaluator = Instance("gpt-5-mini", "gemini-pro", "v1",
                            "model_settings", "model_settings")
    /\ UsageZero
    /\ SideIdle
    /\ RunIdle
    /\ FactsIdle

SpecLive ==
    /\ InitLive /\ [][Next]_vars
    /\ WF_vars(ReadDocument)
    /\ WF_vars(ExtractionAttempt)
    /\ WF_vars(ValidateExtraction)
    /\ WF_vars(EvaluationAttempt)
    /\ WF_vars(Finish)

-----------------------------------------------------------------------------
(* Claims on the pipeline, checked under Spec *)

\* the running or finished wrapper call ended in an exception of the backend
BackendFailure == pc = "Failed" /\ last_error # NoExc

\* C2: a wrapper call whose first two attempts failed is still running or has
\* returned: it raises only after a third failure; and when the third attempt
\* succeeds, the wrapper returns that attempt's result and nothing is raised.
C2_ThirdAttemptResult ==
    /\ BackendFailure => attempt > 2
    /\ (pc = "ValidatingExtraction" /\ attempt = 3) =>
          /\ ext_result = response
          /\ ext_result.output \in FactsSamples
          /\ raised = NoExc
    /\ (pc = "ValidatingEvaluation" /\ attempt = 3) =>
          /\ eval_result = response
          /\ eval_result.output \in AvaliacaoSamples
          /\ raised = NoExc

\* the extraction wrapper returned on its third attempt, after two sleeps
C2_Witness ==
    /\ pc = "ValidatingExtraction" /\ attempt = 3 /\ Len(waits) = 2
    /\ ext_result.output \in FactsSamples

\* C3: the wrapper never starts a fourth attempt, and when all three attempts
\* fail the exception leaving evaluate() is the third attempt's exception
\* itself, not a RetryError around it.
C3_FinalExceptionUnchanged ==
    /\ attempt <= 3
    /\ BackendFailure =>
          /\ attempt = 3
          /\ raised = last_error
          /\ raised \in BackendErrors

\* the evaluation wrapper gave up after three attempts
C3_Witness ==
    /\ BackendFailure /\ attempt = 3 /\ pdf_info # NoOutput
    /\ raised.type = "UnexpectedModelBehavior"

\* C4: the evaluation agent receives a request only after the extraction
\* wrapper of the same invocation returned a result, and an invocation whose
\* extraction stage failed sends none.
C4_ExtractionBeforeEvaluation ==
    /\ (evaluation_requests > 0
          \/ pc \in {"ValidatingExtraction", "Evaluating", "ValidatingEvaluation", "Done"})
       => /\ ext_result.output \in FactsSamples
          /\ extraction_requests > 0
    /\ evaluation_requests > 0 => pdf_info = ext_result.output
    /\ (pc = "Failed" /\ ext_result = NoResult) => evaluation_requests = 0

\* the extraction stage used all its attempts and failed
C4_Witness ==
    /\ BackendFailure /\ ext_result = NoResult
    /\ extraction_requests >= 3 /\ evaluation_requests = 0

\* C5: evaluate() ends either with the complete result dict (every key, the
\* score of the evaluation backend) and no exception, or with an exception
\* and no dict at all, also when only the evaluation stage failed.
C5_RecordOrException ==
    /\ pc = "Done" =>
          /\ raised = NoExc
          /\ DOMAIN returned = ResultKeys
          /\ DOMAIN returned.usage =
                {"input_tokens", "output_tokens", "total_tokens", "requests"}
          /\ returned.nota = eval_result.output.nota
    /\ pc # "Done" => returned = NoRecord
    /\ pc = "Failed" => raised # NoExc

\* extraction succeeded, the evaluation stage failed, nothing was returned
C5_Witness ==
    /\ BackendFailure /\ pdf_info \in FactsSamples /\ evaluation_requests >= 3
    /\ returned = NoRecord

\* C6: the usage summary of a returned dict is the sum of the usage records of
\* this invocation's extraction result and evaluation result (None counting
\* as 0), whatever earlier invocations on the instance accumulated, and
\* total_tokens is input_tokens + output_tokens.
C6_UsagePerInvocation ==
    pc = "Done" =>
        /\ returned.usage.input_tokens =
              OrZero(ext_result.usage.input_tokens) + OrZero(eval_result.usage.input_tokens)
        /\ returned.usage.output_tokens =
              OrZero(ext_result.usage.output_tokens) + OrZero(eval_result.usage.output_tokens)
        /\ returned.usage.requests =
              OrZero(ext_result.usage.requests) + OrZero(eval_result.usage.requests)
        /\ returned.usage.total_tokens =
              returned.usage.input_tokens + returned.usage.output_tokens

\* a dict was returned whose two calls both reported tokens
C6_Witness ==
    /\ pc = "Done"
    /\ ext_result.usage.input_tokens > 0 /\ eval_result.usage.output_tokens > 0
    /\ returned.usage.requests = 2

\* C11: a low-quality extraction is logged and nothing else. Once the
\* extraction wrapper returned, the facts evaluate() holds, the summary sent to
\* the evaluation agent and the facts of the returned dict are the backend's
\* record as it came, flagged or not; the flag is a warning; and an invocation
\* whose extraction succeeded fails only through the evaluation stage.
C11_LowQualityIsNotAGate ==
    /\ pc \in {"Evaluating", "ValidatingEvaluation", "Done"} =>
          /\ pdf_info = ext_result.output
          /\ pdf_info \in FactsSamples
          /\ ~validate_extraction(pdf_info) => "extracao de baixa qualidade" \in warnings
    /\ (pc = "Failed" /\ ext_result # NoResult) =>
          /\ last_error # NoExc
          /\ evaluation_requests >= MaxAttempts
    /\ \A s \in sent :
          s.agent = "evaluation_agent" =>
              s.content.body = format_pdf_info(ext_result.output)
    /\ pc \in {"ValidatingEvaluation", "Done"} => evaluation_requests > 0
    /\ pc = "Done" => returned.pdf_info_extracted = ext_result.output

\* a flagged extraction went through the evaluation stage and was returned
C11_Witness ==
    /\ pc = "Done"
    /\ ~validate_extraction(ext_result.output)
    /\ "extracao de baixa qualidade" \in warnings
    /\ evaluation_requests > 0
    /\ returned.pdf_info_extracted = ext_result.output

\* C12: whatever the consistency check finds (score 0..5, any of the sampled
\* criteria combinations, a score >= 4 with fewer than 2 critical criteria
\* met included), evaluate() raises nothing on that account and the returned
\* dict carries the score and the findings of the evaluation backend.
C12_ConsistencyCheckIsAdvisory ==
    /\ pc = "Done" =>
          /\ raised = NoExc
          /\ returned.nota = eval_result.output.nota
          /\ returned.criterios_atendidos = eval_result.output.criterios_atendidos
          /\ returned.justificativa = eval_result.output.justificativa
    /\ pc = "Failed" => eval_result = NoResult
    /\ pc = "ValidatingEvaluation" => raised = NoExc

\* a score of 5 with at most one critical criterion met was warned about and returned
C12_Witness ==
    /\ pc = "Done"
    /\ "inconsistencia nota alta" \in warnings
    /\ eval_result.output.nota = 5
    /\ ~eval_result.output.criterios_atendidos["localizacao"].atendido
    /\ returned.nota = 5

\* C13: the returned dict's nota_descricao is the NOTA_DESCRICOES entry of the
\* returned score, for each score 0..5, never the "Desconhecida" fallback, and
\* its pdf_info_extracted equals the extraction backend's record field by field.
C13_DescriptionAndFacts ==
    pc = "Done" =>
        /\ returned.nota \in 0..5
        /\ returned.nota \in DOMAIN NOTA_DESCRICOES
        /\ returned.nota_descricao = NOTA_DESCRICOES[returned.nota]
        /\ returned.nota_descricao # "Desconhecida"
        /\ DOMAIN returned.pdf_info_extracted = FieldNames
        /\ \A f \in FieldNames : returned.pdf_info_extracted[f] = ext_result.output[f]

\* the top score was returned with its configured description
C13_Witness ==
    /\ pc = "Done"
    /\ returned.nota = 5
    /\ returned.nota_descricao = "Excepcional - prioridade maxima, agendar reuniao"
    /\ returned.pdf_info_extracted["nome_startup"] = "Acme"

\* C16: an invocation on a missing document ends in the read error at the
\* first read: no attempt of the wrapper, no sleep, no rasterizer call, no
\* request to either agent, the usage counters as evaluate() left them on
\* entry, no dict returned.
C16_UnreadableDocumentFailsAtOnce ==
    (pc # "Idle" /\ ~doc.readable) =>
        /\ pc \in {"Extracting", "Failed"}
        /\ pc = "Failed" => raised = Exc("FileNotFoundError", "No such file or directory", "")
        /\ attempt = 0 /\ waits = <<>>
        /\ rasterizer_calls = 0
        /\ sent = {}
        /\ extraction_requests = 0 /\ evaluation_requests = 0
        /\ total_input_tokens = 0 /\ total_output_tokens = 0 /\ total_requests = 0
        /\ returned = NoRecord

\* evaluate() on a missing path has failed
C16_Witness ==
    /\ pc = "Failed" /\ ~doc.readable
    /\ raised.type = "FileNotFoundError"
    /\ extraction_requests = 0

\* the payload the extraction backend's supports_pdf flag calls for
DirectPath == AVAILABLE_MODELS[evaluator.extraction_model_name].supports_pdf
PayloadByFlag ==
    IF DirectPath
    THEN [prompt |-> "EXTRACTION_USER_PROMPT", kind |-> "application/pdf",
          body |-> <<"pdf_bytes">>]
    ELSE [prompt |-> "EXTRACTION_USER_PROMPT", kind |-> "image/png",
          body |-> [k \in 1..(IF doc.pages <= 10 THEN doc.pages ELSE 10) |-> k]]

\* C17: every request the extraction agent receives in an invocation carries
\* the one payload the extraction backend's flag calls for (prompt + PDF bytes
\* with the flag set, prompt + page images in order with it clear), attempt
\* after attempt, whatever the evaluation backend's flag; the rasterizer runs
\* once with the flag clear and never with it set.
C17_PathByExtractionFlag ==
    /\ \A s \in sent : s.agent = "extraction_agent" => s.content = PayloadByFlag
    /\ extraction_requests > 0 =>
          [agent |-> "extraction_agent", content |-> PayloadByFlag] \in sent
    /\ DirectPath => rasterizer_calls = 0
    /\ (~DirectPath /\ extraction_requests > 0) =>
          /\ rasterizer_calls = 1
          /\ images = PayloadByFlag.body

\* all attempts of the image path failed, on an instance whose evaluation
\* backend takes PDFs directly
C17_Witness ==
    /\ BackendFailure /\ ext_result = NoResult /\ extraction_requests >= 3
    /\ ~DirectPath
    /\ evaluator.evaluation_config.supports_pdf
    /\ doc.pages > 10
    /\ sent = {[agent |-> "extraction_agent", content |-> PayloadByFlag]}

\* C19 (as stated): one wrapper call switches to the plain form at most once,
\* and a TypeError of the settings-form call never fails an attempt.
C19_FallbackAtMostOnce ==
    /\ fallbacks <= 1
    /\ last_error.type = "TypeError" => last_error_form = "plain"

\* C19 (amended): the fallback belongs to the attempt. A TypeError of the
\* settings-form call never fails an attempt: the plain form is called once in
\* the same attempt, so a TypeError that fails an attempt is the plain call's.
\* An exception of the plain call is a failed attempt and is retried, the next
\* attempt starts with the settings form again, so one wrapper call falls back
\* at most once per attempt, up to 3 times.
C19_FallbackOncePerAttempt ==
    /\ fallbacks <= attempt /\ fallbacks <= 3
    /\ last_error.type = "TypeError" => last_error_form = "plain"
    /\ last_error_form = "settings" => last_error.type # "TypeError"
    /\ (pc = "Extracting" /\ attempt >= 1) =>
          extraction_requests = (attempt - 1) + fallbacks
    /\ pc = "Evaluating" => evaluation_requests = (attempt - 1) + fallbacks

\* three attempts, each of which fell back and failed in the plain call
C19_Witness ==
    /\ BackendFailure /\ attempt = 3
    /\ fallbacks = 3
    /\ last_error_form = "plain"

\* C20 (as stated): the first sleep is 4, the second is longer, none exceeds 10.
C20_BackoffGrows ==
    /\ Len(waits) >= 1 => waits[1] = 4
    /\ Len(waits) >= 2 => waits[2] > waits[1]
    /\ \A k \in DOMAIN waits : waits[k] <= 10

\* C20 (amended): the wrapper sleeps at most twice, 4 units before the second
\* attempt and 4 units again before the third (2^(n-1) raised to the minimum
\* of 4); no sleep is shorter than the one before or exceeds 10.
C20_BackoffFlatAtMinimum ==
    /\ Len(waits) <= 2
    /\ Len(waits) >= 1 => waits[1] = 4
    /\ Len(waits) >= 2 => waits[2] = 4
    /\ \A k \in DOMAIN waits : waits[k] <= 10
    /\ attempt >= 1 => Len(waits) = attempt - 1

\* the wrapper slept twice and is in its third attempt
C20_Witness ==
    /\ pc = "Evaluating" /\ attempt = 3
    /\ waits = <<4, 4>>

\* C21 (as stated): the usage entry of every returned dict has the estimated
\* cost, the accumulated input and output tokens priced per million tokens
\* with the evaluation backend's prices.
C21_UsageCarriesEstimatedCost ==
    pc = "Done" =>
        /\ "estimated_cost_usd" \in DOMAIN returned.usage
        /\ returned.usage["estimated_cost_usd"] * 1000000 =
              returned.usage.input_tokens
                  * evaluator.evaluation_config.pricing.input_per_million
              + returned.usage.output_tokens
                  * evaluator.evaluation_config.pricing.output_per_million

\* the critical criteria an evaluation output reports as met
CriticosAtendidos(a) ==
    Cardinality({k \in {"localizacao", "estagio_adequado", "metricas_financeiro"} :
                    a.criterios_atendidos[k].atendido})

\* C27 (as stated): on an instance whose PromptSet is PromptV1, whatever name
\* it was constructed with, an output with the location criterion unmet and a
\* score above 0 is warned about; the high-score warning is logged exactly for
\* a score >= 4 with fewer than 2 critical criteria met.
C27_StrictVersionFlagsNonLocal ==
    pc = "Done" =>
        LET a == eval_result.output
        IN  /\ (evaluator.prompts = "PromptV1"
                  /\ ~a.criterios_atendidos["localizacao"].atendido
                  /\ a.nota > 0)
               => "inconsistencia V1" \in warnings
            /\ "inconsistencia nota alta" \in warnings
                  <=> (a.nota >= 4 /\ CriticosAtendidos(a) < 2)

\* C29 (as stated): the prompt_version of a returned dict resolves to the
\* PromptSet the instance used, and is a key of PROMPT_VERSIONS.
C29_RecordedVersionIsRegistered ==
    pc = "Done" =>
        /\ get_prompts(returned.prompt_version) = evaluator.prompts
        /\ returned.prompt_version \in DOMAIN PROMPT_VERSIONS

\* C30 (as stated): a stage makes at most 3 run_sync calls, an invocation at most 6.
C30_AtMostThreeRequestsPerStage ==
    /\ extraction_requests <= 3
    /\ evaluation_requests <= 3
    /\ extraction_requests + evaluation_requests <= 6

\* C30 (amended): a stage makes at most 3 attempts; an attempt is one run_sync
\* call, or two when its settings-form call raises TypeError; so a stage makes
\* at most 6 run_sync calls and an invocation at most 12, and a stage in which
\* no settings-form call raised TypeError makes at most 3.
C30_AtMostSixRequestsPerStage ==
    /\ attempt <= 3
    /\ extraction_requests <= 6
    /\ evaluation_requests <= 6
    /\ extraction_requests + evaluation_requests <= 12
    /\ (pc = "Extracting" /\ attempt >= 1) =>
          /\ extraction_requests <= 2 * (attempt - 1)
          /\ fallbacks = 0 => extraction_requests = attempt - 1
    /\ pc = "Evaluating" =>
          /\ evaluation_requests <= 2 * (attempt - 1)
          /\ fallbacks = 0 => evaluation_requests = attempt - 1
    /\ (pc \in {"ValidatingExtraction", "ValidatingEvaluation"} /\ fallbacks = 0) =>
          (IF pc = "ValidatingExtraction" THEN extraction_requests
                                          ELSE evaluation_requests) = attempt

\* both stages fell back in each of their three attempts: twelve run_sync calls
C30_Witness ==
    /\ pc = "Done"
    /\ extraction_requests = 6
    /\ evaluation_requests = 6

-----------------------------------------------------------------------------
(* Claim on the progress of evaluate(), checked under SpecLive *)

\* the steps of one invocation, and the call that starts the next one
StateOrder ==
    {<<"Idle", "Extracting">>, <<"Done", "Extracting">>, <<"Failed", "Extracting">>,
     <<"Extracting", "Extracting">>, <<"Extracting", "ValidatingExtraction">>,
     <<"Extracting", "Failed">>,
     <<"ValidatingExtraction", "Evaluating">>,
     <<"Evaluating", "Evaluating">>, <<"Evaluating", "ValidatingEvaluation">>,
     <<"Evaluating", "Failed">>,
     <<"ValidatingEvaluation", "Done">>}

\* one step of evaluate() keeps to the order
InOrder == <<pc, pc'>> \in StateOrder

\* C28: every evaluate() invocation eventually reaches Done or Failed, given
\* that each backend request returns or raises; its states follow the order
\* Idle, Extracting, ValidatingExtraction, Evaluating, ValidatingEvaluation,
\* Done; Extracting is entered again only by a new invocation (from Idle, Done
\* or Failed), and Failed is entered only from Extracting or Evaluating.
C28_TerminatesInOrder ==
    /\ [][InOrder]_vars
    /\ (pc = "Extracting") ~> (pc \in {"Done", "Failed"})

\* an invocation that returned its record after both wrappers retried twice
C28_Witness ==
    /\ pc = "Done" /\ returned # NoRecord
    /\ extraction_requests >= 3 /\ evaluation_requests >= 3

-----------------------------------------------------------------------------
(* Claims on the module-level entry points, checked under SpecCtor *)

InCatalog(n) == n \in DOMAIN AVAILABLE_MODELS
CredentialSet(n) == env[AVAILABLE_MODELS[n].env_var] \notin {NoneVal, ""}
Constructed == call.fn = "StartupEvaluator"

\* C1 (as stated): a construction with both backend names in the catalog and
\* both credentials set to non-empty values raises nothing and yields an instance.
C1_ConstructionSucceeds ==
    (Constructed /\ InCatalog(call.a1) /\ InCatalog(call.a2)
       /\ CredentialSet(call.a1) /\ CredentialSet(call.a2))
    => (call.raised = NoExc /\ call.instance # NoInstance)

\* C7: a construction whose two backend names resolve and where a required
\* credential variable is unset (or empty) raises the missing-credential
\* ValueError naming the first such variable, yields no instance, and no
\* backend request was issued.
C7_MissingCredentialFailsFast ==
    (Constructed /\ InCatalog(call.a1) /\ InCatalog(call.a2)
       /\ (~CredentialSet(call.a1) \/ ~CredentialSet(call.a2)))
    => /\ call.raised.type = "ValueError"
       /\ call.raised.value = "nao encontrada"
       /\ call.raised.arg = (IF ~CredentialSet(call.a1)
                             THEN AVAILABLE_MODELS[call.a1].env_var
                             ELSE AVAILABLE_MODELS[call.a2].env_var)
       /\ call.instance = NoInstance
       /\ extraction_requests = 0 /\ evaluation_requests = 0

\* the extraction credential is present and the evaluation credential is absent
C7_Witness ==
    /\ Constructed /\ InCatalog(call.a1) /\ InCatalog(call.a2)
    /\ CredentialSet(call.a1)
    /\ env[AVAILABLE_MODELS[call.a2].env_var] = NoneVal
    /\ call.raised.value = "nao encontrada"

\* C8: get_model_config raises the unknown-backend ValueError exactly for
\* names outside the catalog and returns the catalog entry otherwise; a
\* construction naming an unknown backend in either position raises that
\* error (whatever the credentials), yields no instance and issues no request.
C8_UnknownBackend ==
    /\ call.fn = "get_model_config" =>
          IF InCatalog(call.a1)
          THEN call.raised = NoExc /\ call.config = AVAILABLE_MODELS[call.a1]
          ELSE call.raised = Exc("ValueError", "modelo nao encontrado", call.a1)
    /\ (Constructed /\ (~InCatalog(call.a1) \/ ~InCatalog(call.a2))) =>
          /\ call.raised = Exc("ValueError", "modelo nao encontrado",
                               IF ~InCatalog(call.a1) THEN call.a1 ELSE call.a2)
          /\ call.instance = NoInstance
          /\ extraction_requests = 0 /\ evaluation_requests = 0

\* a construction with a catalog extraction backend and an unknown evaluation backend
C8_Witness ==
    /\ Constructed /\ InCatalog(call.a1) /\ ~InCatalog(call.a2)
    /\ call.raised.type = "ValueError"

Registered(v) == v \in DOMAIN PROMPT_VERSIONS

\* C9 (as stated): every name that is not a key of PROMPT_VERSIONS gets the
\* default PromptSet, every key gets its own, v3 and astella the same one.
C9_UnregisteredGivesDefault ==
    call.fn = "get_prompts" =>
        /\ call.raised = NoExc
        /\ ~Registered(call.a1) => call.prompts = "PromptV2"
        /\ Registered(call.a1) => call.prompts = PROMPT_VERSIONS[call.a1]

\* C9 (amended): the lookup ignores case. A name whose lower-cased form is a key
\* gets that key's PromptSet (V1 -> PromptV1, ASTELLA -> PromptAstella); every
\* other name, the empty name and None get the default (v2) PromptSet; nothing
\* raises; v3 and astella are the same PromptSet.
C9_CaseInsensitiveLookup ==
    /\ call.fn = "get_prompts" =>
        /\ call.raised = NoExc
        /\ call.a1 \in {"v1", "V1"} => call.prompts = "PromptV1"
        /\ call.a1 \in {"v2", "", NoneVal, "v4"} => call.prompts = "PromptV2"
        /\ call.a1 \in {"v3", "astella", "ASTELLA"} => call.prompts = "PromptAstella"
        /\ call.prompts \in {"PromptV1", "PromptV2", "PromptAstella"}
    /\ PROMPT_VERSIONS["v3"] = PROMPT_VERSIONS["astella"]

\* an unregistered spelling of a registered name was resolved
C9_Witness ==
    call.fn = "get_prompts" /\ call.a1 = "V1" /\ call.prompts = "PromptV1"

\* the numeric ranges a rendered rubric carries, as <<stage, registry entry>>
\* in the order of its lines
RangeItems == {"receita_anual", "tamanho_rodada", "valuation_pre_money"}
RECURSIVE EmbeddedRanges(_)
EmbeddedRanges(lines) ==
    IF lines = <<>> THEN <<>>
    ELSE (IF Head(lines).item \in RangeItems
          THEN <<<<Head(lines).stage, Head(lines).item>>>> ELSE <<>>)
         \o EmbeddedRanges(Tail(lines))

\* every stage in declared order, each with revenue, round size and valuation
FullRubric ==
    <<<<"pre_seed", "receita_anual">>, <<"pre_seed", "tamanho_rodada">>,
      <<"pre_seed", "valuation_pre_money">>,
      <<"seed", "receita_anual">>, <<"seed", "tamanho_rodada">>,
      <<"seed", "valuation_pre_money">>,
      <<"series_a", "receita_anual">>, <<"series_a", "tamanho_rodada">>,
      <<"series_a", "valuation_pre_money">>>>

\* every stage in declared order, each with round size and valuation only
NapkinRubric ==
    <<<<"pre_seed", "tamanho_rodada">>, <<"pre_seed", "valuation_pre_money">>,
      <<"seed", "tamanho_rodada">>, <<"seed", "valuation_pre_money">>,
      <<"series_a", "tamanho_rodada">>, <<"series_a", "valuation_pre_money">>>>

TextOf(lines, stage, item) ==
    {lines[i].text : i \in {j \in DOMAIN lines : lines[j].stage = stage /\ lines[j].item = item}}

PromptRendered == call.fn = "get_evaluation_system_prompt"

\* C26 (as stated): the evaluation system prompt of every registered PromptSet
\* embeds, for every stage in declared order, the ranges for annual revenue,
\* round size and pre-money valuation, plus the fixed location constraint.
C26_EveryVersionEmbedsFullRubric ==
    PromptRendered =>
        /\ EmbeddedRanges(call.rendered.criteria) = FullRubric
        /\ call.rendered.location = LOCATION

\* C26 (amended): the prompts of v1 and v2 embed the full registry - every
\* stage in declared order with the revenue, round-size and valuation ranges
\* written with thousands separators - plus the location constraint, and their
\* rubric text is the same; the astella/v3 prompt embeds, for every stage in
\* declared order, the round-size and valuation ranges (with dilution and
\* cap-table composition), no revenue range and no location constraint.
C26_FullRubricInV1V2NapkinInAstella ==
    PromptRendered =>
        IF call.prompts \in {"PromptV1", "PromptV2"}
        THEN /\ EmbeddedRanges(call.rendered.criteria) = FullRubric
             /\ call.rendered.location = "Brasil"
             /\ call.rendered.criteria = format_fund_criteria
             /\ TextOf(call.rendered.criteria, "seed", "receita_anual")
                   = {"  - Receita Anual: R$ 3,500,000 - R$ 10,000,000"}
             /\ TextOf(call.rendered.criteria, "pre_seed", "receita_anual")
                   = {"  - Receita Anual: R$ 0 - R$ 1,000,000"}
             /\ TextOf(call.rendered.criteria, "series_a", "valuation_pre_money")
                   = {"  - Valuation (Pre-Money): R$ 75,000,000 - R$ 200,000,000"}
        ELSE /\ call.prompts = "PromptAstella"
             /\ EmbeddedRanges(call.rendered.criteria) = NapkinRubric
             /\ call.rendered.location = NoneVal
             /\ TextOf(call.rendered.criteria, "seed", "tamanho_rodada")
                   = {"  - Tamanho da Rodada Esperado: R$ 8,000,000 - R$ 20,000,000"}
             /\ \A k \in {"pre_seed", "seed", "series_a"} :
                   /\ TextOf(call.rendered.criteria, k, "receita_anual") = {}
                   /\ TextOf(call.rendered.criteria, k, "diluicao_rodada") # {}
                   /\ TextOf(call.rendered.criteria, k, "composicao_ideal") # {}

\* the astella prompt rendered under its alias v3
C26_Witness ==
    /\ PromptRendered /\ call.a1 = "v3" /\ call.prompts = "PromptAstella"
    /\ Len(call.rendered.criteria) = 17

-----------------------------------------------------------------------------
(* SpecFacts: the pure helpers over every bounded PitchDeckInfo *)

\* number of leading optional fields that vary; the others are None
MaxOptFields == 2

NameValues == {"", "Indefinido", "null", "Acme"}
LocValues == {"", "desconhecido", "Sao Paulo"}
OptValues == {NoneVal, "", "indefinido", "None", "R$ 5M"}

FactsInputs ==
    {MkInfo(n, l, e, o) :
        n \in NameValues, l \in LocValues, e \in Estagio,
        o \in [1..MaxOptFields -> OptValues]}

InitFacts ==
    /\ env = [v \in EnvVars |-> "key"]
    /\ call = NoCall
    /\ evaluator = NoInstance
    /\ UsageZero
    /\ SideIdle
    /\ RunIdle
    /\ info \in FactsInputs
    /\ is_valid = NoneVal
    /\ summary = <<>>

CallValidateExtraction ==
    /\ is_valid = NoneVal
    /\ is_valid' = IF validate_extraction(info) THEN "True" ELSE "False"
    /\ UNCHANGED <<sideVars, ctorVars, usageVars, runVars, info, summary>>

CallFormatPdfInfo ==
    /\ summary = <<>>
    /\ summary' = format_pdf_info(info)
    /\ UNCHANGED <<sideVars, ctorVars, usageVars, runVars, info, is_valid>>

NextFacts ==
    \/ CallValidateExtraction
    \/ CallFormatPdfInfo

SpecFacts == InitFacts /\ [][NextFacts]_vars

-----------------------------------------------------------------------------
(* Claims on the pure helpers, checked under SpecFacts *)

\* a value that is neither empty nor one of the sentinels, whatever its case
\* (an Estagio member taken by its value)
NonSentinel(v) == Truthy(v) /\ Lower(v) \notin Sentinels

NonNameFilled(i) ==
    Cardinality({f \in FieldNames \ {"nome_startup"} : NonSentinel(i[f])})

\* C10 (as stated): the extraction is reported invalid exactly when the name is
\* empty or a sentinel, or fewer than 3 of the fields other than the name hold
\* a non-empty, non-sentinel value.
C10_InvalidIffNameOrFewerThanThree ==
    is_valid # NoneVal =>
        (is_valid = "False"
            <=> (~NonSentinel(info["nome_startup"]) \/ NonNameFilled(info) < 3))

\* position of a field in the declaration of PitchDeckInfo
FieldIndex(f) == CHOOSE n \in 1..Len(PitchDeckFields) : PitchDeckFields[n] = f

\* the lines of the summary that render a field
FieldLines == {k \in DOMAIN summary : summary[k] # NoInformationLine}

\* C14 (as stated): no line carries an empty value or one of "indefinido",
\* "desconhecido", "null", "none"; every field whose value is none of these has
\* exactly one line; with no such field the summary is the no-information line.
C14_NoSentinelValueInSummary ==
    summary # <<>> =>
        /\ \A k \in FieldLines : summary[k].value \notin Sentinels \cup {"", NoneVal}
        /\ \A f \in FieldNames :
              (Truthy(info[f]) /\ info[f] \notin Sentinels) =>
                  Cardinality({k \in FieldLines : summary[k].field = f}) = 1
        /\ (\A f \in FieldNames : ~(Truthy(info[f]) /\ info[f] \notin Sentinels)) =>
              summary = <<NoInformationLine>>

\* C14 (amended): the only values left out are None, the empty string and
\* exactly "indefinido" (the Estagio member of that value included); every
\* other value, "desconhecido", "null", "None" and "Indefinido" among them, is
\* rendered as exactly one line carrying it; the no-information line is the
\* whole summary exactly when no field is rendered.
C14_OnlyEmptyAndIndefinidoLeftOut ==
    summary # <<>> =>
        /\ \A k \in FieldLines :
              /\ summary[k].value \notin {"", NoneVal, "indefinido"}
              /\ summary[k].value = info[summary[k].field]
        /\ \A f \in FieldNames :
              Cardinality({k \in FieldLines : summary[k].field = f}) =
                  (IF info[f] \notin {"", NoneVal, "indefinido"} THEN 1 ELSE 0)
        /\ (\A f \in FieldNames : info[f] \in {"", NoneVal, "indefinido"})
              <=> summary = <<NoInformationLine>>
        /\ FieldLines = {} <=> summary = <<NoInformationLine>>

\* a summary that renders "desconhecido" and leaves the undefined stage out
C14_Witness ==
    /\ \E k \in FieldLines :
          summary[k] = [field |-> "localizacao", value |-> "desconhecido"]
    /\ info["estagio"] = "indefinido"
    /\ \A k \in FieldLines : summary[k].field # "estagio"

\* C15: the rendered fields follow the declaration order of PitchDeckInfo:
\* of two lines the earlier one renders the field declared earlier, hence no
\* field has two lines.
C15_DeclarationOrder ==
    \A j \in FieldLines, k \in FieldLines :
        j < k => FieldIndex(summary[j].field) < FieldIndex(summary[k].field)

\* name, stage and the second optional field are rendered, the fields between are not
C15_Witness ==
    /\ Len(summary) = 3
    /\ summary[1].field = "nome_startup"
    /\ summary[2].field = "estagio"
    /\ summary[3].field = PitchDeckFields[FirstOptional + 1]

-----------------------------------------------------------------------------
(* SpecPages: _pdf_to_images over page counts and page caps *)

\* largest page cap passed as max_pages
MaxCap == 11

InitPages ==
    /\ env = [v \in EnvVars |-> "key"]
    /\ call = NoCall
    /\ evaluator = NoInstance
    /\ UsageZero
    /\ SideIdle
    /\ pc = "Idle"
    /\ doc \in {[readable |-> TRUE, pages |-> n] : n \in 1..MaxPages}
    /\ content = NoContent
    /\ attempt = 0
    /\ fallbacks = 0
    /\ last_error_form = NoneVal
    /\ sent = {}
    /\ max_pages_arg \in 0..MaxCap
    /\ images = <<>>
    /\ rasterizer_calls = 0
    /\ extraction_requests = 0
    /\ evaluation_requests = 0
    /\ waits = <<>>
    /\ last_error = NoExc
    /\ response = NoResult
    /\ ext_result = NoResult
    /\ eval_result = NoResult
    /\ pdf_info = NoOutput
    /\ warnings = {}
    /\ raised = NoExc
    /\ returned = NoRecord
    /\ FactsIdle

\* _pdf_to_images(pdf_path, max_pages), lines 202-219
CallPdfToImages ==
    /\ rasterizer_calls = 0
    /\ rasterizer_calls' = 1
    /\ \E installed \in BOOLEAN :
          IF import_fitz(installed) # NoExc
          THEN /\ raised' = import_fitz(installed)
               /\ UNCHANGED images
          ELSE /\ images' = pdf_to_images(doc, max_pages_arg)
               /\ UNCHANGED raised
    /\ UNCHANGED <<sideVars, ctorVars, usageVars, factVars, evaluator, pc, doc, content, attempt,
                   fallbacks, last_error_form, sent, max_pages_arg, extraction_requests,
                   evaluation_requests, waits, last_error, response, ext_result,
                   eval_result, pdf_info, warnings, returned>>

NextPages == CallPdfToImages

SpecPages == InitPages /\ [][NextPages]_vars

-----------------------------------------------------------------------------
(* Claims on the rasterizer, checked under SpecPages *)

\* C18: a call of the rasterizer that returns, on a document of n pages with
\* cap c, returns min(n, c) images, image k being page k; the pages beyond the
\* cap are left out and nothing is raised for them (15 pages with cap 10 give
\* the images of pages 1..10).
C18_FirstMinPagesInOrder ==
    (rasterizer_calls = 1 /\ raised = NoExc) =>
        /\ Len(images) = (IF doc.pages <= max_pages_arg THEN doc.pages ELSE max_pages_arg)
        /\ \A k \in DOMAIN images : images[k] = k
        /\ (doc.pages = 15 /\ max_pages_arg = 10) =>
              images = <<1, 2, 3, 4, 5, 6, 7, 8, 9, 10>>

\* a 15-page document was rasterized with the default cap
C18_Witness ==
    /\ rasterizer_calls = 1 /\ raised = NoExc
    /\ doc.pages = 15 /\ max_pages_arg = 10
    /\ Len(images) = 10

-----------------------------------------------------------------------------
(* SpecScorecard: PromptAstella.SCORING_CRITERIA and the mapping step of     *)
(* PromptAstella.EVALUATION_INSTRUCTIONS, followed as the prompt instructs   *)

\* one numbered criterion: its category, the points in its heading and the
\* points of the levels listed under it
Criterion(category, number, points, levels) ==
    [category |-> category, number |-> number, points |-> points, levels |-> levels]

ThreeLevels15 == {0, 7, 15}
ThreeLevels10 == {0, 5, 10}

SCORING_CRITERIA ==
    <<Criterion("PESSOAS", 1, 15, ThreeLevels15),
      Criterion("PESSOAS", 4, 10, ThreeLevels10),
      Criterion("PRODUTO", 11, 15, ThreeLevels15),
      Criterion("PRODUTO", 12, 15, ThreeLevels15),
      Criterion("PRODUTO", 13, 15, ThreeLevels15),
      Criterion("PRODUTO", 15, 15, ThreeLevels15),
      Criterion("PRODUTO", 17, 15, ThreeLevels15),
      Criterion("PRODUTO", 19, 15, ThreeLevels15),
      Criterion("PRODUTO", 20, 10, ThreeLevels10),
      Criterion("PROCESSOS", 21, 20, {0, 10, 20}),
      Criterion("PROCESSOS", 22, 15, ThreeLevels15),
      Criterion("PROCESSOS", 23, 15, ThreeLevels15),
      Criterion("PROCESSOS", 24, 15, ThreeLevels15),
      Criterion("PROCESSOS", 26, 15, ThreeLevels15),
      Criterion("PROCESSOS", 27, 10, ThreeLevels10),
      Criterion("PROCESSOS", 30, 15, ThreeLevels15),
      Criterion("PARTICIPACAO", 31, 10, {0, 10}),
      Criterion("PARTICIPACAO", 32, 15, {0, 15}),
      Criterion("PARTICIPACAO", 33, 5, {0, 5})>>

\* "### CATEGORY (Total: N pontos)"
CategoryHeadings ==
    [c \in {"PESSOAS", "PRODUTO", "PROCESSOS", "PARTICIPACAO"} |->
        CASE c = "PESSOAS" -> 25
          [] c = "PRODUTO" -> 100
          [] c = "PROCESSOS" -> 100
          [] c = "PARTICIPACAO" -> 30]

\* "Total maximo possivel: 255 pontos"
StatedMaximum == 255

\* the score modifiers: sector risk up to -8, red flags up to -10, and -5 for
\* each of the four key metrics not informed
Modifiers ==
    {[sector |-> a, red_flags |-> b, missing |-> k] : a \in 0..8, b \in 0..10, k \in 0..4}
Penalty(m) == m.sector + m.red_flags + 5 * m.missing

\* the six bands as written, in the final-scale section and again in PASSO 3
Band(nota, kind, lo, hi) == [nota |-> nota, kind |-> kind, lo |-> lo, hi |-> hi]
SCORE_BANDS ==
    <<Band(5, "above", 220, 220),      \* "> 220 pontos"
      Band(4, "range", 180, 219),
      Band(3, "range", 140, 179),
      Band(2, "range", 90, 139),
      Band(1, "range", 40, 89),
      Band(0, "below", 40, 40)>>       \* "< 40 pontos"

InBand(b, total) ==
    CASE b.kind = "above" -> total > b.lo
      [] b.kind = "range" -> b.lo <= total /\ total <= b.hi
      [] b.kind = "below" -> total < b.hi

\* the scores the table gives a total
NotasOf(total) ==
    {SCORE_BANDS[i].nota : i \in {j \in DOMAIN SCORE_BANDS : InBand(SCORE_BANDS[j], total)}}

InitScorecard ==
    /\ env = [v \in EnvVars |-> "key"]
    /\ call = NoCall
    /\ evaluator = NoInstance
    /\ UsageZero
    /\ RunIdle
    /\ FactsIdle
    /\ scorecard = [NoScorecard EXCEPT !.step = "Scoring", !.next = 1]
    /\ batch = NoBatch
    /\ isolation = NoneVal
    /\ counters = <<>>
    /\ threads = <<>>

\* PASSO 1: the next criterion gets the points of one of its levels
ScoreCriterion ==
    /\ scorecard.step = "Scoring"
    /\ scorecard.next <= Len(SCORING_CRITERIA)
    /\ \E pts \in SCORING_CRITERIA[scorecard.next].levels :
          scorecard' = [scorecard EXCEPT !.next = @ + 1, !.points = @ + pts]
    /\ UNCHANGED <<ctorVars, usageVars, runVars, factVars, batch, isolation, counters, threads>>

\* PASSO 1, last two items: the modifiers are applied and the total is summed
ApplyModifiers ==
    /\ scorecard.step = "Scoring"
    /\ scorecard.next > Len(SCORING_CRITERIA)
    /\ \E m \in Modifiers :
          scorecard' = [scorecard EXCEPT !.step = "Summed", !.total = scorecard.points - Penalty(m)]
    /\ UNCHANGED <<ctorVars, usageVars, runVars, factVars, batch, isolation, counters, threads>>

\* PASSO 3: the total is mapped through the bands
MapToNota ==
    /\ scorecard.step = "Summed"
    /\ scorecard' = [scorecard EXCEPT !.step = "Mapped", !.notas = NotasOf(scorecard.total)]
    /\ UNCHANGED <<ctorVars, usageVars, runVars, factVars, batch, isolation, counters, threads>>

NextScorecard ==
    \/ ScoreCriterion
    \/ ApplyModifiers
    \/ MapToNota

SpecScorecard == InitScorecard /\ [][NextScorecard]_vars

-----------------------------------------------------------------------------
(* Claims on the astella scorecard, checked under SpecScorecard *)

\* C24: the band table is a total function of the total: every total the
\* procedure can arrive at, from 0 to 255 and below after penalties, falls in
\* exactly one band; 0 maps to 0, 225 and 255 map to 5, and 220 maps to
\* exactly one score.
C24_EveryTotalInExactlyOneBand ==
    scorecard.step = "Mapped" =>
        /\ Cardinality(scorecard.notas) = 1
        /\ scorecard.notas \subseteq 0..5
        /\ scorecard.total = 0 => scorecard.notas = {0}
        /\ scorecard.total \in {225, 255} => scorecard.notas = {5}

RECURSIVE FullPointsFrom(_, _)
FullPointsFrom(i, categories) ==
    IF i > Len(SCORING_CRITERIA) THEN 0
    ELSE (IF SCORING_CRITERIA[i].category \in categories
          THEN SCORING_CRITERIA[i].points ELSE 0)
         + FullPointsFrom(i + 1, categories)

\* C25: the maximum raw score is 255: no sum of level points exceeds it, the
\* full-point values of all sub-criteria sum to it, and the full-point values
\* of each category sum to the total in the category's heading.
C25_MaximumIs255 ==
    /\ scorecard.points <= StatedMaximum
    /\ scorecard.next > Len(SCORING_CRITERIA) =>
          /\ FullPointsFrom(1, DOMAIN CategoryHeadings) = StatedMaximum
          /\ \A c \in DOMAIN CategoryHeadings : FullPointsFrom(1, {c}) = CategoryHeadings[c]

-----------------------------------------------------------------------------
(* SpecShared: two evaluate() invocations on two threads, on one shared      *)
(* StartupEvaluator or on one instance each. The threads interleave between  *)
(* any two accesses of an instance attribute: `self.x += n` is a load and a  *)
(* store, and neither evaluate() nor its helpers take a lock.                *)

\* the two invocations in flight
Invocations == {"A", "B"}

\* the attributes in the order reset_usage (lines 157-159) and _track_usage
\* (lines 141-143) touch them, and in the order get_usage (lines 148-151)
\* reads them: input, output, input + output for the total, requests
UsageFields == <<"input_tokens", "output_tokens", "requests">>
GetUsageReads ==
    <<"input_tokens", "output_tokens", "input_tokens", "output_tokens", "requests">>

\* RunUsage records the backend returns to the two invocations: one with all
\* counts None, one with counts
SharedUsageSamples ==
    {[input_tokens |-> NoneInt, output_tokens |-> NoneInt, requests |-> NoneInt],
     [input_tokens |-> 1, output_tokens |-> 2, requests |-> 1]}

\* the instance an invocation runs on
InstanceOf(t) == IF isolation = "shared" THEN "shared" ELSE t

NoThread == [pc |-> "Idle", k |-> 1, loaded |-> 0, calls |-> <<>>, reads |-> <<>>,
             returned |-> NoUsage]

InitShared ==
    /\ env = [v \in EnvVars |-> "key"]
    /\ call = NoCall
    /\ evaluator = NoInstance
    /\ UsageZero
    /\ RunIdle
    /\ FactsIdle
    /\ scorecard = NoScorecard
    /\ batch = NoBatch
    /\ isolation \in {"shared", "per_call"}
    /\ counters = [i \in {InstanceOf(t) : t \in Invocations} |-> NoUsage]
    /\ threads = [t \in Invocations |-> NoThread]

\* evaluate() is called on thread t
CallEvaluate(t) ==
    /\ threads[t].pc = "Idle"
    /\ threads' = [threads EXCEPT ![t].pc = "Reset", ![t].k = 1]
    /\ UNCHANGED <<ctorVars, usageVars, runVars, factVars, scorecard, batch, isolation, counters>>

\* reset_usage, one assignment
ResetField(t) ==
    /\ threads[t].pc = "Reset"
    /\ LET f == UsageFields[threads[t].k]
       IN  counters' = [counters EXCEPT ![InstanceOf(t)][f] = reset(@)]
    /\ threads' = IF threads[t].k < Len(UsageFields)
                  THEN [threads EXCEPT ![t].k = @ + 1]
                  ELSE [threads EXCEPT ![t].pc = "Extracting", ![t].k = 1]
    /\ UNCHANGED <<ctorVars, usageVars, runVars, factVars, scorecard, batch, isolation>>

\* _run_agent_sync returns to extract_info (line 171/178) or to
\* evaluate_startup (line 227) with the usage of that call
BackendReturns(t, u) ==
    /\ threads[t].pc \in {"Extracting", "Evaluating"}
    /\ threads' = [threads EXCEPT ![t].pc = "TrackLoad", ![t].k = 1,
                                  ![t].calls = Append(@, u)]
    /\ UNCHANGED <<ctorVars, usageVars, runVars, factVars, scorecard, batch, isolation, counters>>

\* _track_usage, the load of one `+=`
TrackLoad(t) ==
    /\ threads[t].pc = "TrackLoad"
    /\ threads' = [threads EXCEPT ![t].pc = "TrackStore",
                                  ![t].loaded = counters[InstanceOf(t)][UsageFields[threads[t].k]]]
    /\ UNCHANGED <<ctorVars, usageVars, runVars, factVars, scorecard, batch, isolation, counters>>

\* _track_usage, the store of one `+=`; after the third, extract_info returns
\* into evaluate_startup, or evaluate_startup returns into evaluate()
TrackStore(t) ==
    /\ threads[t].pc = "TrackStore"
    /\ LET f == UsageFields[threads[t].k]
           u == threads[t].calls[Len(threads[t].calls)]
       IN  counters' = [counters EXCEPT ![InstanceOf(t)][f] = track(threads[t].loaded, u[f])]
    /\ threads' = IF threads[t].k < Len(UsageFields)
                  THEN [threads EXCEPT ![t].pc = "TrackLoad", ![t].k = @ + 1]
                  ELSE IF Len(threads[t].calls) = 1
                  THEN [threads EXCEPT ![t].pc = "Evaluating", ![t].k = 1]
                  ELSE [threads EXCEPT ![t].pc = "GetUsage", ![t].k = 1]
    /\ UNCHANGED <<ctorVars, usageVars, runVars, factVars, scorecard, batch, isolation>>

\* get_usage, one attribute read; after the last, evaluate() builds the
\* 'usage' entry (lines 285-290) and returns
GetUsageRead(t) ==
    /\ threads[t].pc = "GetUsage"
    /\ LET r == Append(threads[t].reads, counters[InstanceOf(t)][GetUsageReads[threads[t].k]])
       IN  threads' = IF threads[t].k < Len(GetUsageReads)
                      THEN [threads EXCEPT ![t].k = @ + 1, ![t].reads = r]
                      ELSE [threads EXCEPT ![t].pc = "Done", ![t].reads = r,
                                           ![t].returned =
                                               [input_tokens |-> r[1],
                                                output_tokens |-> r[2],
                                                total_tokens |-> r[3] + r[4],
                                                requests |-> r[5]]]
    /\ UNCHANGED <<ctorVars, usageVars, runVars, factVars, scorecard, batch, isolation, counters>>

NextShared ==
    \/ \E t \in Invocations : CallEvaluate(t)
    \/ \E t \in Invocations : ResetField(t)
    \/ \E t \in Invocations, u \in SharedUsageSamples : BackendReturns(t, u)
    \/ \E t \in Invocations : TrackLoad(t)
    \/ \E t \in Invocations : TrackStore(t)
    \/ \E t \in Invocations : GetUsageRead(t)

SpecShared == InitShared /\ [][NextShared]_vars

-----------------------------------------------------------------------------
(* Claim on concurrent invocations, checked under SpecShared *)

\* the usage of an invocation's own two calls, summed
OwnUsage(t) ==
    LET c == threads[t].calls
        i == OrZero(c[1].input_tokens) + OrZero(c[2].input_tokens)
        o == OrZero(c[1].output_tokens) + OrZero(c[2].output_tokens)
    IN  [input_tokens |-> i,
         output_tokens |-> o,
         total_tokens |-> i + o,
         requests |-> OrZero(c[1].requests) + OrZero(c[2].requests)]

Returned(t) == threads[t].pc = "Done"

\* C23: when each invocation in flight has its own instance, every returned
\* usage summary is the sum of the usage of that invocation's own two calls;
\* on one shared instance an interleaving returns a different summary (see
\* C23_Witness).
C23_IsolatedUsageIsOwn ==
    isolation = "per_call" =>
        \A t \in Invocations : Returned(t) => threads[t].returned = OwnUsage(t)

\* one shared instance: an invocation returned a summary that counts more
\* than its own calls, and the other returned one that counts fewer
C23_Witness ==
    /\ isolation = "shared"
    /\ \E t \in Invocations, o \in Invocations :
          /\ Returned(t) /\ Returned(o)
          /\ threads[t].returned.input_tokens > OwnUsage(t).input_tokens
          /\ threads[o].returned.input_tokens < OwnUsage(o).input_tokens

-----------------------------------------------------------------------------
(* SpecBatch: the batch drivers, process_batch (main.py) with                *)
(* evaluate_single_startup, and run_comparison (compare_batch.py)            *)

MaxFiles == 3

\* the parameters __init__ declares (evaluator.py lines 48-53)
StartupEvaluatorParams == {"extraction_model", "evaluation_model", "prompt_version"}

\* StartupEvaluator(**keywords): a keyword __init__ does not declare is a
\* TypeError at the call; otherwise the body of __init__ runs. Whether the
\* body raises is the flag `body_raises`: as the body stands it raises for
\* every argument (StartupEvaluatorInit), and the drivers are specified for
\* both outcomes so that their loops are specified at all.
CallStartupEvaluator(keywords, body_raises) ==
    IF ~(keywords \subseteq StartupEvaluatorParams)
    THEN Exc("TypeError", "unexpected keyword argument",
             CHOOSE k \in keywords : k \notin StartupEvaluatorParams)
    ELSE IF body_raises
    THEN Exc("AttributeError", "ModelConfig has no attribute", "temperature")
    ELSE NoExc

\* sys.exit(1)
SystemExit == Exc("SystemExit", "1", "")

\* `except Exception` catches what derives from Exception; SystemExit derives
\* from BaseException only
except_Exception(e) == e.type \notin {"SystemExit", "KeyboardInterrupt", "GeneratorExit"}

\* a folder that does not exist, or one with n PDF files
Folders ==
    {[exists |-> FALSE, files |-> 0]} \cup {[exists |-> TRUE, files |-> n] : n \in 0..MaxFiles}

MkBatch(driver, folder, model_name, body_raises) ==
    [driver |-> driver, folder |-> folder, model_name |-> model_name,
     body_raises |-> body_raises, pc |-> "Called", i |-> 0, attempted |-> {},
     results |-> <<>>, reported |-> <<>>, summary |-> FALSE, exit_code |-> NoneInt]

InitBatch ==
    /\ env = [v \in EnvVars |-> "key"]
    /\ call = NoCall
    /\ evaluator = NoInstance
    /\ UsageZero
    /\ RunIdle
    /\ FactsIdle
    /\ scorecard = NoScorecard
    /\ batch \in {MkBatch("process_batch", f, m, b) :
                     f \in Folders, m \in {DEFAULT_MODEL, "gpt-4o"}, b \in BOOLEAN}
                 \cup {MkBatch("run_comparison", f, DEFAULT_MODEL, b) :
                          f \in Folders, b \in BOOLEAN}
    /\ isolation = NoneVal
    /\ counters = <<>>
    /\ threads = <<>>

\* main.py, evaluate_single_startup lines 59-83: the exception that leaves the
\* function, or NoExc when it returns a result. `evaluate_ok` is the outcome
\* of evaluator.evaluate(pdf_path).
evaluate_single_startup(model_name, body_raises, evaluate_ok) ==
    IF get_model_config(model_name).raised # NoExc
    THEN [raised |-> get_model_config(model_name).raised, printed |-> <<>>]
    ELSE IF CallStartupEvaluator({"model_name", "prompt_version"}, body_raises) # NoExc
    THEN [raised |-> SystemExit, printed |-> <<"Erro ao inicializar avaliador">>]
    ELSE IF ~evaluate_ok
    THEN [raised |-> SystemExit, printed |-> <<"Erro na avaliacao">>]
    ELSE [raised |-> NoExc, printed |-> <<>>]

\* process_batch lines 213-226
ProcessBatchStart ==
    /\ batch.driver = "process_batch" /\ batch.pc = "Called"
    /\ batch' = IF ~batch.folder.exists
                THEN [batch EXCEPT !.pc = "Exited", !.exit_code = 1,
                                   !.reported = Append(@, "Pasta nao encontrada")]
                ELSE IF batch.folder.files = 0
                THEN [batch EXCEPT !.pc = "Returned",
                                   !.reported = Append(@, "Nenhum PDF encontrado")]
                ELSE [batch EXCEPT !.pc = "Loop", !.i = 1]
    /\ UNCHANGED <<ctorVars, usageVars, runVars, factVars, scorecard, isolation, counters, threads>>

\* process_batch lines 228-239: one iteration of the loop
ProcessBatchDocument ==
    /\ batch.driver = "process_batch" /\ batch.pc = "Loop"
    /\ batch.i <= batch.folder.files
    /\ \E evaluate_ok \in BOOLEAN :
          LET r == evaluate_single_startup(batch.model_name, batch.body_raises, evaluate_ok)
          IN  batch' =
                  IF r.raised = NoExc
                  THEN [batch EXCEPT !.attempted = @ \cup {batch.i}, !.i = @ + 1,
                                     !.results = Append(@, [pdf |-> batch.i, nota |-> "nota"])]
                  ELSE IF except_Exception(r.raised)
                  THEN [batch EXCEPT !.attempted = @ \cup {batch.i}, !.i = @ + 1,
                                     !.reported = @ \o r.printed \o <<"Erro ao processar">>]
                  ELSE [batch EXCEPT !.attempted = @ \cup {batch.i},
                                     !.reported = @ \o r.printed,
                                     !.pc = "Exited", !.exit_code = 1]
    /\ UNCHANGED <<ctorVars, usageVars, runVars, factVars, scorecard, isolation, counters, threads>>

\* process_batch lines 241-276: the summary, printed when a result exists
ProcessBatchFinish ==
    /\ batch.driver = "process_batch" /\ batch.pc = "Loop"
    /\ batch.i > batch.folder.files
    /\ batch' = [batch EXCEPT !.pc = "Returned", !.summary = (batch.results # <<>>)]
    /\ UNCHANGED <<ctorVars, usageVars, runVars, factVars, scorecard, isolation, counters, threads>>

\* run_comparison lines 21-49
ComparisonStart ==
    /\ batch.driver = "run_comparison" /\ batch.pc = "Called"
    /\ batch' = IF ~batch.folder.exists
                THEN [batch EXCEPT !.pc = "Returned",
                                   !.reported = Append(@, "Pasta nao encontrada")]
                ELSE IF batch.folder.files = 0
                THEN [batch EXCEPT !.pc = "Returned",
                                   !.reported = Append(@, "Nenhum PDF encontrado")]
                ELSE IF CallStartupEvaluator(StartupEvaluatorParams, batch.body_raises) # NoExc
                THEN [batch EXCEPT !.pc = "Returned",
                                   !.reported = Append(@, "Erro ao inicializar avaliadores")]
                ELSE [batch EXCEPT !.pc = "Loop", !.i = 1]
    /\ UNCHANGED <<ctorVars, usageVars, runVars, factVars, scorecard, isolation, counters, threads>>

\* run_comparison lines 51-81: one iteration of the loop, both evaluations
ComparisonDocument ==
    /\ batch.driver = "run_comparison" /\ batch.pc = "Loop"
    /\ batch.i <= batch.folder.files
    /\ \E v2_ok \in BOOLEAN, astella_ok \in BOOLEAN :
          batch' = [batch EXCEPT
                       !.attempted = @ \cup {batch.i},
                       !.i = @ + 1,
                       !.reported = @ \o (IF v2_ok THEN <<>> ELSE <<"Erro V2">>)
                                      \o (IF astella_ok THEN <<>> ELSE <<"Erro Astella">>),
                       !.results = Append(@, [pdf |-> batch.i,
                                              v2_score |-> IF v2_ok THEN "nota" ELSE "Erro",
                                              astella_score |-> IF astella_ok THEN "nota" ELSE "Erro"])]
    /\ UNCHANGED <<ctorVars, usageVars, runVars, factVars, scorecard, isolation, counters, threads>>

\* run_comparison lines 83-136: the comparison table
ComparisonFinish ==
    /\ batch.driver = "run_comparison" /\ batch.pc = "Loop"
    /\ batch.i > batch.folder.files
    /\ batch' = [batch EXCEPT !.pc = "Returned", !.summary = TRUE]
    /\ UNCHANGED <<ctorVars, usageVars, runVars, factVars, scorecard, isolation, counters, threads>>

NextBatch ==
    \/ ProcessBatchStart
    \/ ProcessBatchDocument
    \/ ProcessBatchFinish
    \/ ComparisonStart
    \/ ComparisonDocument
    \/ ComparisonFinish

SpecBatch == InitBatch /\ [][NextBatch]_vars

-----------------------------------------------------------------------------
(* Claim on the batch drivers, checked under SpecBatch *)

\* the driver is over and its folder held at least one PDF
BatchOver ==
    /\ batch.pc \in {"Returned", "Exited"}
    /\ batch.folder.exists /\ batch.folder.files > 0

\* C22: in both drivers a failure while constructing the evaluator for, or
\* evaluating, one document is caught and reported and does not abort the
\* batch: every document of the folder is attempted and the batch reaches its
\* summary step.
C22_FailuresDoNotAbortBatch ==
    BatchOver =>
        /\ batch.attempted = 1..batch.folder.files
        /\ batch.summary
        /\ batch.exit_code = NoneInt

====
